---- MODULE Spec2Model ----
(***************************************************************************)
(* Model of the task runner "t": the dependency resolver with parallel     *)
(* fan-out (Runner.runTaskWithSync / Runner.runDependenciesParallel), the  *)
(* interactive prompt collector (Runner.promptForInput), the variable      *)
(* expanders and the command executor.                                     *)
(*                                                                         *)
(* Program strings that the code manipulates (command templates, rendered  *)
(* commands, input lines, variable values) are sequences of one-character  *)
(* strings.  Task names are only compared, they are TLA+ strings.          *)
(***************************************************************************)
EXTENDS Integers, Sequences, FiniteSets, TLC

\* ------------------------------------------------------------------ bounds
\* number of sibling branches that share the dependency C in the fan-in
\* configuration
Width == 2
\* number of commands of the shared dependency C
NCmds == 2
\* longest line the operator types at a prompt
MaxLineLen == 2
\* the number of list and stop operations in one behaviour
MaxOps == 2
\* the lines the processes write to their log files while t :logs runs
MaxOut == 1
\* the depth of nested calls of runTaskWithSync that is followed
MaxDepth == 4

\* ------------------------------------------------------------ string tools
RECURSIVE TrimLeft(_)
TrimLeft(s) ==
    IF s # <<>> /\ Head(s) = " " THEN TrimLeft(Tail(s)) ELSE s

RECURSIVE TrimRight(_)
TrimRight(s) ==
    IF s # <<>> /\ s[Len(s)] = " " THEN TrimRight(SubSeq(s, 1, Len(s) - 1)) ELSE s

\* strings.TrimSpace
TrimSpace(s) == TrimRight(TrimLeft(s))

HasPrefix(s, p) == Len(s) >= Len(p) /\ SubSeq(s, 1, Len(p)) = p

\* strings.ReplaceAll(s, old, new) for non-empty old: non-overlapping
\* occurrences, leftmost first
RECURSIVE ReplaceAll(_, _, _)
ReplaceAll(s, old, new) ==
    IF Len(s) < Len(old) THEN s
    ELSE IF HasPrefix(s, old)
         THEN new \o ReplaceAll(SubSeq(s, Len(old) + 1, Len(s)), old, new)
         ELSE <<Head(s)>> \o ReplaceAll(Tail(s), old, new)

\* index of the first "}}" in s, 0 when there is none
RECURSIVE CloseAt(_, _)
CloseAt(s, k) ==
    IF k + 1 > Len(s) THEN 0
    ELSE IF s[k] = "}" /\ s[k + 1] = "}" THEN k
    ELSE CloseAt(s, k + 1)

\* all orders in which a Go map with key set S can be iterated
Perms(S) ==
    {f \in [1..Cardinality(S) -> S] : \A i, j \in 1..Cardinality(S) : f[i] = f[j] => i = j}

\* ----------------------------------------------------------------- errors
\* an error value: kind "nil" is the nil error.  via is the chain of
\* wrappers put around it on the way up ("dependency X failed: ",
\* "interactive input failed: ").
NilErr == [kind |-> "nil", name |-> "", cmd |-> <<>>, via |-> <<>>]

MkErr(kind, name, cmd) == [kind |-> kind, name |-> name, cmd |-> cmd, via |-> <<>>]

Wrap(w, e) == [e EXCEPT !.via = <<w>> \o @]

IsErr(e) == e.kind # "nil"


\* ------------------------------------------------------------ configuration
\* Task{Deps, Cmds, Interactive}; Prompt{Required, Default} (Message is only
\* printed).  Default = <<>> is Go's zero value "": no default.
Task(deps, cmds, inter) == [Deps |-> deps, Cmds |-> cmds, Interactive |-> inter]

Prompt(required, default) == [Required |-> required, Default |-> default]

NoPrompts == <<>>

Digits == <<"1", "2", "3", "4", "5", "6", "7", "8", "9">>

BranchNames == <<"A", "B", "E", "F", "G">>

\* the sibling branches of the fan-in configuration
Branches == SubSeq(BranchNames, 1, Width)

BranchSet == {Branches[k] : k \in 1..Width}

\* static variables of every configuration (Config.Vars)
StaticVars ==
    [n \in {<<"V">>, <<"W">>} |->
        IF n = <<"V">> THEN <<"x">> ELSE <<"{", "{", ".", "V", "}", "}">>]

\* D: deps = Branches, every branch: deps = [C], C: NCmds commands;
\* H: deps = [A, C] reaches C at two depths
FanInTasks ==
    [n \in {"D", "C", "H"} \cup BranchSet |->
        IF n = "D" THEN Task(Branches, <<<<"d">>>>, NoPrompts)
        ELSE IF n = "H" THEN Task(<<"A", "C">>, <<<<"h">>>>, NoPrompts)
        ELSE IF n = "C" THEN Task(<<>>, [k \in 1..NCmds |-> <<"c", Digits[k]>>], NoPrompts)
        ELSE Task(<<"C">>, <<<<"b", n>>>>, NoPrompts)]

\* duplicate entries in one deps list, names that are not tasks ("M"), and a
\* task without commands
LazyTasks ==
    [n \in {"P", "Q", "R", "C", "N"} |->
        IF n = "N" THEN Task(<<"C">>, <<>>, NoPrompts)
        ELSE IF n = "P" THEN Task(<<"C", "C">>, <<<<"p">>>>, NoPrompts)
        ELSE IF n = "Q" THEN Task(<<"M">>, <<<<"q">>>>, NoPrompts)
        ELSE IF n = "R" THEN Task(<<"C", "M">>, <<<<"r">>>>, NoPrompts)
        ELSE Task(<<>>, <<<<"c">>>>, NoPrompts)]

\* the four kinds of prompt: required / optional, with / without default;
\* T3: values that hold template syntax ({{.V}} and an unclosed {{);
\* T4: a value that holds a $token, and a field name that is a prefix of
\* another field name
PromptTasks ==
    [n \in {"T1", "T2", "T3", "T4"} |->
        IF n = "T3"
        THEN Task(<<>>, <<<<"$", "t", "{", "{", ".", "V", "}", "}">>, <<"$", "u">>>>,
                  [f \in {<<"t">>, <<"u">>} |->
                      IF f = <<"t">> THEN Prompt(FALSE, <<"{", "{", ".", "V", "}", "}">>)
                      ELSE Prompt(FALSE, <<"{", "{">>)])
        ELSE IF n = "T4"
        THEN Task(<<>>, <<<<"$", "n">>, <<"$", "n", "m">>>>,
                  [f \in {<<"n">>, <<"n", "m">>} |->
                      IF f = <<"n">> THEN Prompt(FALSE, <<"$", "n", "m">>)
                      ELSE Prompt(FALSE, <<"k">>)])
        ELSE IF n = "T1"
        THEN Task(<<>>, <<<<"$", "r", "{", "{", ".", "V", "}", "}">>, <<"$", "d">>>>,
                  [f \in {<<"r">>, <<"d">>} |->
                      IF f = <<"r">> THEN Prompt(TRUE, <<>>) ELSE Prompt(TRUE, <<"k">>)])
        ELSE Task(<<>>, <<<<"$", "o", "$", "p">>>>,
                  [f \in {<<"o">>, <<"p">>} |->
                      IF f = <<"o">> THEN Prompt(FALSE, <<>>) ELSE Prompt(FALSE, <<"k">>)])]

\* a task with a required field that is reached by one or by two branches
SharedPromptTasks ==
    [n \in {"S", "U", "W"} |->
        IF n = "S" THEN Task(<<>>, <<<<"s", "$", "r">>>>, [f \in {<<"r">>} |-> Prompt(TRUE, <<>>)])
        ELSE IF n = "U" THEN Task(<<"S", "S">>, <<<<"u">>>>, NoPrompts)
        ELSE Task(<<"S">>, <<<<"w">>>>, NoPrompts)]

\* a command whose template is malformed (unclosed action), between two
\* well-formed ones; Z: an undeclared variable, and a variable whose value
\* holds a placeholder
TemplateTasks ==
    [n \in {"X", "Y", "Z"} |->
        IF n = "Z"
        THEN Task(<<>>, <<<<"y", "{", "{", ".", "N", "}", "}">>,
                          <<"{", "{", ".", "W", "}", "}", "{", "{", ".", "V", "}", "}">>>>, NoPrompts)
        ELSE IF n = "X"
        THEN Task(<<>>, <<<<"a", "{", "{", ".", "V", "}", "}">>, <<"{", "{", ".", "V">>, <<"z">>>>, NoPrompts)
        ELSE Task(<<"X">>, <<<<"y", "{", "{", ".", "N", "}", "}">>>>, NoPrompts)]

\* a task with an interactive field whose dependency is shared with a
\* sibling branch: G: deps = [A, I], A: deps = [C], I: deps = [C]
PromptDepTasks ==
    [n \in {"G", "A", "I", "C"} |->
        IF n = "G" THEN Task(<<"A", "I">>, <<<<"g">>>>, NoPrompts)
        ELSE IF n = "A" THEN Task(<<"C">>, <<<<"a">>>>, NoPrompts)
        ELSE IF n = "I" THEN Task(<<"C">>, <<<<"i", "$", "q">>>>,
                                  [f \in {<<"q">>} |-> Prompt(FALSE, <<>>)])
        ELSE Task(<<>>, <<<<"c">>>>, NoPrompts)]

\* the configurations (Config.Tasks) and the task names given to RunTask
\* tasks started in detached mode: S has a setup command, a final command
\* with a $field token, one dependency; K has two dependencies and two
\* setup commands; N has no command; X has a malformed final command
DetachTasks ==
    [n \in {"S", "B", "I", "C", "K", "N", "X"} |->
        IF n = "S"
        THEN Task(<<"B">>, <<<<"u">>, <<"s", "$", "q", "{", "{", ".", "V", "}", "}">>>>,
                  [f \in {<<"q">>} |-> Prompt(TRUE, <<>>)])
        ELSE IF n = "B" THEN Task(<<"I", "C">>, <<<<"b">>>>, NoPrompts)
        ELSE IF n = "I"
        THEN Task(<<"C">>, <<<<"i", "$", "q">>>>, [f \in {<<"q">>} |-> Prompt(FALSE, <<>>)])
        ELSE IF n = "C" THEN Task(<<>>, <<<<"c">>>>, NoPrompts)
        ELSE IF n = "K" THEN Task(<<"C", "C">>, <<<<"h">>, <<"j">>, <<"k">>>>, NoPrompts)
        ELSE IF n = "N" THEN Task(<<>>, <<>>, NoPrompts)
        ELSE Task(<<>>, <<<<"{", "{", ".", "V">>>>, NoPrompts)]

\* a configuration with dependency cycles: L lists itself; M and N list
\* each other, M with a second dependency C outside the cycle; R reaches
\* the cycle of L beside F, whose dependencies (I, with a field, and C twice
\* below it) are free of cycles
CycleTasks ==
    [n \in {"L", "M", "N", "R", "F", "I", "C"} |->
        IF n = "L" THEN Task(<<"L">>, <<<<"l">>>>, NoPrompts)
        ELSE IF n = "M" THEN Task(<<"N", "C">>, <<<<"m">>>>, NoPrompts)
        ELSE IF n = "N" THEN Task(<<"M">>, <<<<"n">>>>, NoPrompts)
        ELSE IF n = "R" THEN Task(<<"F", "L">>, <<<<"r">>>>, NoPrompts)
        ELSE IF n = "F" THEN Task(<<"I">>, <<<<"f">>>>, NoPrompts)
        ELSE IF n = "I"
        THEN Task(<<"C", "C">>, <<<<"i", "$", "q">>>>, [f \in {<<"q">>} |-> Prompt(FALSE, <<>>)])
        ELSE Task(<<>>, <<<<"c">>>>, NoPrompts)]

\* the names given to RunTask with CycleTasks
CycleTargets == {"L", "M", "R"}

Configs ==
    <<FanInTasks, LazyTasks, PromptTasks, SharedPromptTasks, TemplateTasks, PromptDepTasks>>

Targets ==
    <<{"D", "A", "H"}, {"P", "Q", "R", "M", "C", "N"}, {"T1", "T2", "T3", "T4"}, {"U", "W"}, {"X", "Y", "Z"},
      {"G"}>>

\* ------------------------------------------------------------ the expanders
\* Runner.expandVars: text/template over Config.Vars (a map[string]string).
\* Covered template language: literal text and {{.NAME}}; an unclosed
\* action is a parse error.  A missing key of a string map renders "".
RECURSIVE ExpandTemplate(_, _)
ExpandTemplate(s, vars) ==
    IF s = <<>> THEN [ok |-> TRUE, out |-> <<>>]
    ELSE IF HasPrefix(s, <<"{", "{">>)
    THEN LET rest == SubSeq(s, 3, Len(s))
             c == CloseAt(rest, 1)
             inner == SubSeq(rest, 1, c - 1)
             after == SubSeq(rest, c + 2, Len(rest))
             r == ExpandTemplate(after, vars)
         IN  IF c = 0 \/ Len(inner) < 2 \/ inner[1] # "." THEN [ok |-> FALSE, out |-> <<>>]
             ELSE IF ~r.ok THEN r
             ELSE [ok |-> TRUE,
                   out |-> (IF Tail(inner) \in DOMAIN vars THEN vars[Tail(inner)] ELSE <<>>) \o r.out]
    ELSE LET r == ExpandTemplate(Tail(s), vars)
         IN  IF ~r.ok THEN r ELSE [ok |-> TRUE, out |-> <<Head(s)>> \o r.out]

\* the output of the template is expanded a second time
expandVarsTwice(command) ==
    LET r == ExpandTemplate(command, StaticVars)
    IN  IF r.ok THEN ExpandTemplate(r.out, StaticVars) ELSE r

expandVars(command) == ExpandTemplate(command, StaticVars)

\* Runner.expandVarsWithInteractive: one strings.ReplaceAll per entry of the
\* map, in the order the map happens to be iterated (order)
RECURSIVE ReplaceInOrder(_, _, _, _)
ReplaceInOrder(s, inputs, order, k) ==
    IF k > Len(order) THEN s
    ELSE ReplaceInOrder(ReplaceAll(s, <<"$">> \o order[k], inputs[order[k]]), inputs, order, k + 1)

\* the result of the replacement is evaluated as a template
expandInteractiveThenTemplate(cmdStr, interactiveInputs, order) ==
    LET r == ReplaceInOrder(cmdStr, interactiveInputs, order, 1)
        e == ExpandTemplate(r, StaticVars)
    IN  IF e.ok THEN e.out ELSE r

expandVarsWithInteractive(cmdStr, interactiveInputs, order) ==
    ReplaceInOrder(cmdStr, interactiveInputs, order, 1)

\* ------------------------------------------------------------ prompt input
LineChars == {" ", "v"}

Lines == UNION {[1..n -> LineChars] : n \in 0..MaxLineLen}

\* reader.ReadString fails (end of input)
EOF == <<"EOF">>

StdinReads == Lines \cup {EOF}

\* Runner.promptForInput, the body of the loop for one field after the read:
\* the value stored for the field, and whether it is the required-missing
\* error
ResolveInput(prompt, line) ==
    LET input == TrimSpace(line)
    IN  IF input = <<>> /\ prompt.Default # <<>> THEN prompt.Default ELSE input

\* the required check made on the trimmed line, before the default is applied
RequiredBeforeDefault(prompt, line) == prompt.Required /\ TrimSpace(line) = <<>>

\* the required check left out
RequiredNeverChecked(prompt, line) == FALSE

RequiredMissing(prompt, line) == prompt.Required /\ ResolveInput(prompt, line) = <<>>

ExitCodes == {0, 1}


\* ------------------------------------------------------------------- state
\* cfg, target : the configuration loaded and the name given to RunTask
\* Ran         : Runner.Ran, the names mapped to true
\* readers     : the calls that hold Runner.mutex for reading
\* writers     : the calls that hold Runner.mutex for writing
\* frames      : one record per call of runTaskWithSync, keyed by its path
\*               from the top-level call (the indexes into the deps lists)
VARIABLES cfg, target, Ran, readers, writers, frames

\* The world of the detached processes, shared by every invocation:
\* goos   : runtime.GOOS of the build, "unix" or "windows"
\* store  : the directory .t-processes: pid -> the record of <pid>.json
\* procs  : the process table of the host: pid -> alive, parent, whether the
\*          process ignores SIGTERM, its command line, the file its output
\*          goes to
\* host   : the invocation that called RunTaskDetached: whether its process
\*          still runs, the pid it spawned (0: none), the outcome of
\*          saveDetachedProcess, the state of its reaper goroutine, the log
\*          file path it chose
\* op     : the list, stop or logs operation of a later invocation, in
\*          progress or finished; prev: the operation before it; nops:
\*          their number
\* logs   : the directory .t-logs: path -> the lines of the file
VARIABLES goos, store, procs, host, op, prev, nops, logs

dvars == <<goos, store, procs, host, op, prev, nops, logs>>

vars == <<cfg, target, Ran, readers, writers, frames, dvars>>

\* the configuration of the detached runs comes after those of Configs
DetachCfg == Len(Configs) + 1

\* and that of the cycles after it
CycleCfg == Len(Configs) + 2

Tasks ==
    IF cfg = DetachCfg THEN DetachTasks
    ELSE IF cfg = CycleCfg THEN CycleTasks
    ELSE Configs[cfg]

Top == <<>>

Parent(p) == SubSeq(p, 1, Len(p) - 1)

Child(p, k) == Append(p, k)

\* a fresh call of runTaskWithSync(taskName); kind is "top" for RunTask's
\* call, "call" for the inline call of a single dependency and "go" for the
\* goroutine of runDependenciesParallel.
\*   err            the value returned (pc = "Ret" and later)
\*   todo           the fields promptForInput has not asked yet
\*   typed          the line read for each field asked
\*   inputs         promptForInput's inputs map
\*   rendered       the rendered strings of the commands started so far
\*   exits          the exit codes of the commands that finished
\*   marked         this call passed the re-check and set Ran[taskName]
\*   wg, errChan    the WaitGroup and channel of this call's fan-out
\*   closed         errChan was closed (wg.Wait() returned)
NewFrame(taskName, kind) ==
    [task |-> taskName, kind |-> kind, pc |-> "RLock", err |-> NilErr, marked |-> FALSE,
     todo |-> {}, typed |-> <<>>, inputs |-> <<>>,
     rendered |-> <<>>, exits |-> <<>>, wg |-> 0, errChan |-> <<>>, closed |-> FALSE]

\* no detached process was started: an invocation that has spawned nothing
NoHost == [running |-> TRUE, pid |-> 0, saved |-> "none", reaper |-> "none", logFile |-> <<>>]

\* no list, stop or logs operation
NoOp ==
    [kind |-> "none", id |-> <<>>, pc |-> "done", files |-> <<>>, ret |-> <<>>, del |-> {},
     target |-> 0, found |-> FALSE, gerr |-> FALSE, kerr |-> FALSE, err |-> "nil",
     killed |-> {}, removed |-> {}, moved |-> FALSE, dead |-> {},
     lost |-> <<>>, logFile |-> <<>>, shown |-> <<>>, wrote |-> 0]

Init ==
    /\ cfg \in 1..Len(Configs)
    /\ target \in Targets[cfg]
    /\ Ran = {}
    /\ readers = {}
    /\ writers = {}
    /\ frames = [p \in {Top} |-> NewFrame(target, "top")]
    /\ goos = "unix"
    /\ store = <<>>
    /\ procs = <<>>
    /\ host = NoHost
    /\ op = NoOp
    /\ prev = NoOp
    /\ nops = 0
    /\ logs = <<>>

\* RunTask is given a task of a configuration with cycles
InitY ==
    /\ cfg = CycleCfg
    /\ target \in CycleTargets
    /\ Ran = {}
    /\ readers = {}
    /\ writers = {}
    /\ frames = [p \in {Top} |-> NewFrame(target, "top")]
    /\ goos = "unix"
    /\ store = <<>>
    /\ procs = <<>>
    /\ host = NoHost
    /\ op = NoOp
    /\ prev = NoOp
    /\ nops = 0
    /\ logs = <<>>

\* return e from the call p
Return(f, e) == [f EXCEPT !.pc = "Ret", !.err = e]

\* the re-check left out: the task is run whatever Ran says
RecheckSkipped(taskName) == FALSE

\* part_003:155  if r.Ran[taskName], under the write lock
Recheck(taskName) == taskName \in Ran

\* the error of the dependencies is ignored
AfterDepsIgnoring(f, err) == [f EXCEPT !.pc = "Lock"]

\* part_003:148-151  if err := r.runDependenciesParallel(task.Deps); err != nil
\* { return err }
AfterDeps(f, err) == IF IsErr(err) THEN Return(f, err) ELSE [f EXCEPT !.pc = "Lock"]

\* the join returns as soon as one branch has reported an error
WaitReturnsOnFirstError(f) == f.wg = 0 \/ f.errChan # <<>>

\* part_003:198  wg.Wait() returns
WaitReturns(f) == f.wg = 0

\* the errors of the branches are dropped
FirstErrorDropped(errChan) == NilErr

\* part_003:202-208  the first error received from the closed channel, or nil
FirstError(errChan) == IF errChan # <<>> THEN Head(errChan) ELSE NilErr

\* the exit status is ignored
CmdFailedNever(code) == FALSE

\* part_003:270  cmd.Run() reports an error for a non-zero exit status
CmdFailed(code) == code # 0

\* ----------------------------------------------------------------- actions
\* Runner.mutex is a sync.RWMutex: any number of readers or one writer.  A
\* call that waits for the mutex stays at "RLock" or "Lock" until it can be
\* taken (a pending Lock may in addition hold back new readers; every order
\* of acquisition that allows is among the orders allowed here).
\* the first check made without taking the read lock
RLockOmitted(p) ==
    /\ frames[p].pc = "RLock"
    /\ frames' = [frames EXCEPT ![p].pc = "Check1"]
    /\ UNCHANGED <<dvars, cfg, target, Ran, readers, writers>>

\* part_003:134  r.mutex.RLock()
RLock(p) ==
    /\ frames[p].pc = "RLock"
    /\ writers = {}
    /\ readers' = readers \cup {p}
    /\ frames' = [frames EXCEPT ![p].pc = "Check1"]
    /\ UNCHANGED <<dvars, cfg, target, Ran, writers>>

\* part_003:135-139  if r.Ran[taskName] { RUnlock; return nil }; RUnlock
Check1(p) ==
    /\ frames[p].pc = "Check1"
    /\ readers' = readers \ {p}
    /\ frames' = [frames EXCEPT ![p] =
                    IF frames[p].task \in Ran THEN Return(@, NilErr) ELSE [@ EXCEPT !.pc = "Lookup"]]
    /\ UNCHANGED <<dvars, cfg, target, Ran, writers>>

\* the calls runDependenciesParallel(deps) makes for the caller p
Spawned(p, deps) ==
    [q \in {Child(p, k) : k \in 1..Len(deps)} |->
        NewFrame(deps[q[Len(q)]], IF Len(deps) = 1 THEN "call" ELSE "go")]

\* the lookup refuses a task that one of its callers is already running
LookupDetectingCycle(p) ==
    /\ frames[p].pc = "Lookup"
    /\ frames' = [frames EXCEPT ![p] =
          IF \E k \in 0..(Len(p) - 1) : frames[SubSeq(p, 1, k)].task = frames[p].task
          THEN Return(@, MkErr("cyclic dependency", frames[p].task, <<>>))
          ELSE IF frames[p].task \notin DOMAIN Tasks
          THEN Return(@, MkErr("task not found", frames[p].task, <<>>))
          ELSE [@ EXCEPT !.pc = "Lock"]]
    /\ UNCHANGED <<dvars, cfg, target, Ran, readers, writers>>

\* part_003:141-151 and 178-196: the lookup of the task, and the start of its
\* dependencies: one inline call, or one goroutine per entry of deps (calls
\* nested deeper than MaxDepth are not followed)
Lookup(p) ==
    /\ frames[p].pc = "Lookup"
    /\ (frames[p].task \in DOMAIN Tasks /\ Len(Tasks[frames[p].task].Deps) > 0) =>
          Len(p) < MaxDepth
    /\ LET name == frames[p].task IN
       IF name \notin DOMAIN Tasks
       THEN frames' = [frames EXCEPT ![p] = Return(@, MkErr("task not found", name, <<>>))]
       ELSE LET deps == Tasks[name].Deps
                new == Spawned(p, deps)
            IN  frames' =
                  [q \in DOMAIN frames \cup DOMAIN new |->
                     IF q \in DOMAIN new THEN new[q]
                     ELSE IF q # p THEN frames[q]
                     ELSE IF Len(deps) = 0 THEN [frames[p] EXCEPT !.pc = "Lock"]
                     ELSE IF Len(deps) = 1 THEN [frames[p] EXCEPT !.pc = "WaitInline"]
                     ELSE [frames[p] EXCEPT !.pc = "WgWait", !.wg = Len(deps)]]
    /\ UNCHANGED <<dvars, cfg, target, Ran, readers, writers>>

\* part_003:181 and 148-150: the inline call of the only dependency returns
InlineReturn(p) ==
    /\ frames[p].pc = "WaitInline"
    /\ LET c == Child(p, 1) IN
       /\ frames[c].pc = "Ret"
       /\ frames' = [frames EXCEPT
                       ![c].pc = "Exited",
                       ![p] = AfterDeps(@, frames[c].err)]
    /\ UNCHANGED <<dvars, cfg, target, Ran, readers, writers>>

\* the channel holds one error
CapacityOne(deps) == 1

\* part_003:186  errChan := make(chan error, len(deps))
Capacity(deps) == Len(deps)

\* part_003:192-194: a dependency goroutine whose call failed sends the
\* wrapped error on errChan; the send waits while the channel is full
GoSend(c) ==
    /\ frames[c].kind = "go"
    /\ frames[c].pc = "Ret"
    /\ IsErr(frames[c].err)
    /\ LET p == Parent(c) IN
       /\ Len(frames[p].errChan) < Capacity(Tasks[frames[p].task].Deps)
       /\ frames' = [frames EXCEPT
                       ![c].pc = "Deferred",
                       ![p].errChan = Append(@, Wrap(<<"dependency failed", frames[c].task>>, frames[c].err))]
    /\ UNCHANGED <<dvars, cfg, target, Ran, readers, writers>>

\* part_003:191: defer wg.Done()
WgDone(c) ==
    /\ frames[c].kind = "go"
    /\ \/ frames[c].pc = "Deferred"
       \/ frames[c].pc = "Ret" /\ ~IsErr(frames[c].err)
    /\ frames' = [frames EXCEPT ![c].pc = "Exited", ![Parent(c)].wg = @ - 1]
    /\ UNCHANGED <<dvars, cfg, target, Ran, readers, writers>>

\* part_003:198-208 and 148-150: wg.Wait(), close(errChan), the first error
\* received from the channel is returned
WgWait(p) ==
    /\ frames[p].pc = "WgWait"
    /\ WaitReturns(frames[p])
    /\ frames' = [frames EXCEPT ![p] =
                    AfterDeps([@ EXCEPT !.closed = TRUE], FirstError(frames[p].errChan))]
    /\ UNCHANGED <<dvars, cfg, target, Ran, readers, writers>>

\* the write lock is taken while another call holds it
LockNotExclusive(p) ==
    /\ frames[p].pc = "Lock"
    /\ readers = {}
    /\ writers' = writers \cup {p}
    /\ frames' = [frames EXCEPT ![p].pc = "Check2"]
    /\ UNCHANGED <<dvars, cfg, target, Ran, readers>>

\* part_003:154  r.mutex.Lock()
Lock(p) ==
    /\ frames[p].pc = "Lock"
    /\ writers = {}
    /\ readers = {}
    /\ writers' = {p}
    /\ frames' = [frames EXCEPT ![p].pc = "Check2"]
    /\ UNCHANGED <<dvars, cfg, target, Ran, readers>>

\* the call that finds the task done returns with the write lock held
Check2KeepingLock(p) ==
    /\ frames[p].pc = "Check2"
    /\ LET f == frames[p] IN
       frames' = [frames EXCEPT ![p] =
                    IF Recheck(f.task) THEN Return(@, NilErr)
                    ELSE IF DOMAIN Tasks[f.task].Interactive = {}
                    THEN [@ EXCEPT !.pc = "Mark"]
                    ELSE [@ EXCEPT !.pc = "Prompt", !.todo = DOMAIN Tasks[f.task].Interactive]]
    /\ UNCHANGED <<dvars, cfg, target, Ran, readers, writers>>

\* part_003:155-163 and 294-299: the re-check under the write lock; then
\* promptForInput starts (it returns at once when there is no field)
Check2(p) ==
    /\ frames[p].pc = "Check2"
    /\ LET f == frames[p] IN
       IF Recheck(f.task)
       THEN /\ writers' = writers \ {p}
            /\ frames' = [frames EXCEPT ![p] = Return(@, NilErr)]
       ELSE /\ writers' = writers
            /\ frames' = [frames EXCEPT ![p] =
                            IF DOMAIN Tasks[f.task].Interactive = {}
                            THEN [@ EXCEPT !.pc = "Mark"]
                            ELSE [@ EXCEPT !.pc = "Prompt", !.todo = DOMAIN Tasks[f.task].Interactive]]
    /\ UNCHANGED <<dvars, cfg, target, Ran, readers>>

\* part_003:305-342 and 164-167: one iteration of promptForInput's loop, for
\* any field not asked yet and any line read from standard input
PromptField(p) ==
    /\ frames[p].pc = "Prompt"
    /\ \E varName \in frames[p].todo, line \in StdinReads :
         LET prompt == Tasks[frames[p].task].Interactive[varName]
             asked == [x \in DOMAIN frames[p].typed \cup {varName} |->
                         IF x = varName THEN line ELSE frames[p].typed[x]]
         IN  IF line = EOF
             THEN /\ writers' = writers \ {p}
                  /\ frames' = [frames EXCEPT ![p] =
                        Return([@ EXCEPT !.typed = asked],
                               Wrap(<<"interactive input failed", "">>,
                                    MkErr("failed to read input", "", <<>>)))]
             ELSE IF RequiredMissing(prompt, line)
             THEN /\ writers' = writers \ {p}
                  /\ frames' = [frames EXCEPT ![p] =
                        Return([@ EXCEPT !.typed = asked],
                               Wrap(<<"interactive input failed", "">>,
                                    MkErr("required input not provided", "", varName)))]
             ELSE /\ writers' = writers
                  /\ frames' = [frames EXCEPT ![p] =
                        [@ EXCEPT !.typed = asked,
                                  !.inputs = [x \in DOMAIN frames[p].inputs \cup {varName} |->
                                                IF x = varName THEN ResolveInput(prompt, line)
                                                ELSE frames[p].inputs[x]],
                                  !.todo = @ \ {varName},
                                  !.pc = IF frames[p].todo = {varName} THEN "Mark" ELSE "Prompt"]]
    /\ UNCHANGED <<dvars, cfg, target, Ran, readers>>

\* part_003:170-171  r.Ran[taskName] = true; r.mutex.Unlock()
Mark(p) ==
    /\ frames[p].pc = "Mark"
    /\ Ran' = Ran \cup {frames[p].task}
    /\ writers' = writers \ {p}
    /\ frames' = [frames EXCEPT ![p].pc = "Exec", ![p].marked = TRUE]
    /\ UNCHANGED <<dvars, cfg, target, readers>>

\* every template of the task is parsed before its first command is started
ExecNextEager(p) ==
    /\ frames[p].pc = "Exec"
    /\ LET f == frames[p]
           cmds == Tasks[f.task].Cmds
           i == Len(f.rendered) + 1
           bad == {k \in 1..Len(cmds) : ~expandVars(cmds[k]).ok}
       IN  IF bad # {}
           THEN frames' = [frames EXCEPT ![p] =
                             Return(@, MkErr("template", "", cmds[CHOOSE k \in bad : \A j \in bad : k <= j]))]
           ELSE IF i > Len(cmds)
           THEN frames' = [frames EXCEPT ![p] = Return(@, NilErr)]
           ELSE \E order \in Perms(DOMAIN f.inputs) :
                  frames' = [frames EXCEPT ![p] =
                     [@ EXCEPT !.rendered = Append(@, expandVarsWithInteractive(
                                                          expandVars(cmds[i]).out, f.inputs, order)),
                               !.pc = "CmdRun"]]
    /\ UNCHANGED <<dvars, cfg, target, Ran, readers, writers>>

\* part_003:244-268: the head of executeCommandsWithInteractive's loop: the
\* next command is rendered and its process is started; the function returns
\* nil after the last command
ExecNext(p) ==
    /\ frames[p].pc = "Exec"
    /\ LET f == frames[p]
           cmds == Tasks[f.task].Cmds
           i == Len(f.rendered) + 1
       IN  IF i > Len(cmds)
           THEN frames' = [frames EXCEPT ![p] = Return(@, NilErr)]
           ELSE LET e == expandVars(cmds[i]) IN
                IF ~e.ok
                THEN frames' = [frames EXCEPT ![p] = Return(@, MkErr("template", "", cmds[i]))]
                ELSE \E order \in Perms(DOMAIN f.inputs) :
                       frames' = [frames EXCEPT ![p] =
                          [@ EXCEPT !.rendered = Append(@, expandVarsWithInteractive(e.out, f.inputs, order)),
                                    !.pc = "CmdRun"]]
    /\ UNCHANGED <<dvars, cfg, target, Ran, readers, writers>>

\* part_003:270-274: cmd.Run() returns with the exit status of the command
CmdFinish(p) ==
    /\ frames[p].pc = "CmdRun"
    /\ \E code \in ExitCodes :
         frames' = [frames EXCEPT ![p] =
            IF CmdFailed(code)
            THEN Return([@ EXCEPT !.exits = Append(@, code)],
                        MkErr("command failed", "", frames[p].rendered[Len(frames[p].rendered)]))
            ELSE [@ EXCEPT !.exits = Append(@, code), !.pc = "Exec"]]
    /\ UNCHANGED <<dvars, cfg, target, Ran, readers, writers>>

Next ==
    \/ \E p \in DOMAIN frames : RLock(p)
    \/ \E p \in DOMAIN frames : Check1(p)
    \/ \E p \in DOMAIN frames : Lookup(p)
    \/ \E p \in DOMAIN frames : InlineReturn(p)
    \/ \E p \in DOMAIN frames : GoSend(p)
    \/ \E p \in DOMAIN frames : WgDone(p)
    \/ \E p \in DOMAIN frames : WgWait(p)
    \/ \E p \in DOMAIN frames : Lock(p)
    \/ \E p \in DOMAIN frames : Check2(p)
    \/ \E p \in DOMAIN frames : PromptField(p)
    \/ \E p \in DOMAIN frames : Mark(p)
    \/ \E p \in DOMAIN frames : ExecNext(p)
    \/ \E p \in DOMAIN frames : CmdFinish(p)

Spec == Init /\ [][Next]_vars

\* RunTask when every goroutine that can take a step takes one in the end:
\* the scheduler runs every runnable goroutine, every command started ends
\* and every prompt gets a line (or the end of the input)
FairSpec == Spec /\ WF_vars(Next)

\* RunTask over the configuration with cycles
SpecY == InitY /\ [][Next]_vars

\* ------------------------------------------------------ detached processes
GOOS == {"unix", "windows"}

\* a task name as the characters of an identifier (the task names of
\* DetachTasks are single characters)
Chars(name) == <<name>>

\* part_003:380  time.Now().Format("20060102-150405"): the second in which
\* the run is started; "t0" is the second of the run before it
Timestamps == {"t0", "t1"}

\* part_003:381  .t-logs/<task>-<timestamp>.log
LogPath(taskName, timestamp) == <<".t-logs", taskName, timestamp>>

\* part_003:466-472  the record of a detached process (StartedAt, which only
\* the listing prints, is left out)
DetachedProcess(pid, taskName, cmdStr, logFile) ==
    [PID |-> pid, TaskName |-> Chars(taskName), Command |-> cmdStr, LogFile |-> logFile]

\* the record is not written
saveNothing(s, proc) == s

\* part_003:494-507  the file <pid>.json is written (an older one replaced)
saveDetachedProcess(s, proc) ==
    [q \in DOMAIN s \cup {proc.PID} |-> IF q = proc.PID THEN proc ELSE s[q]]

\* the file is left in place
removeNothing(s, pid) == s

\* part_003:510-514  the file <pid>.json is removed, if it is there
removeDetachedProcess(s, pid) == [q \in DOMAIN s \ {pid} |-> s[q]]

\* every pid is taken for a running process
isProcessRunningAlways(pid) == TRUE

\* part_003:555-569  ps -p <pid> / tasklist /FI "PID eq <pid>": the process
\* table holds the pid
isProcessRunning(pid) == pid \in DOMAIN procs /\ procs[pid].alive

\* an entry of the process table
Proc(parent, ignoresTerm, cmd, out) ==
    [alive |-> TRUE, parent |-> parent, ignoresTerm |-> ignoresTerm, cmd |-> cmd, out |-> out]

\* the lines a process has written to its log file, told apart by their
\* numbers
Written(n) == [i \in 1..n |-> i]

\* the pid the host gives to the next process; no pid is used twice
NewPid ==
    IF DOMAIN procs = {} THEN 1
    ELSE 1 + CHOOSE m \in DOMAIN procs : \A q \in DOMAIN procs : q <= m

\* what the command started does: it runs alone, it runs alone and ignores
\* SIGTERM, or it starts a child process of its own
Shapes == {"plain", "ignoresTerm", "forks"}

\* part_003:430-460  the processes there are once sh -c <cmdStr> (or
\* powershell -Command <cmdStr>) was started with pid, its output going to
\* logFile (444-445); a child has the output of its parent
Started(pid, cmdStr, shape, logFile) ==
    [q \in (IF shape = "forks" THEN {pid, pid + 1} ELSE {pid}) |->
        IF q = pid THEN Proc(0, shape = "ignoresTerm", cmdStr, logFile)
        ELSE Proc(pid, FALSE, <<>>, logFile)]

\* the processes started by the detached run of this invocation
HostProcs == {q \in DOMAIN procs : host.pid # 0 /\ q >= host.pid}

\* the store, the process table and the log files an invocation may find:
\* nothing, or the live record of an earlier detached run of S, which has
\* written a line
StartWorlds ==
    {[store |-> <<>>, procs |-> <<>>, logs |-> <<>>],
     [store |-> [q \in {1} |-> DetachedProcess(1, "S", <<"s", "$", "q", "x">>, LogPath("S", "t0"))],
      procs |-> [q \in {1} |-> Proc(0, FALSE, <<"s", "$", "q", "x">>, LogPath("S", "t0"))],
      logs |-> [f \in {LogPath("S", "t0")} |-> Written(1)]]}

\* the names given to RunTaskDetached ("Z" is not a task)
DetachTargets == {"S", "K", "N", "X", "Z"}

InitD ==
    /\ cfg = DetachCfg
    /\ target \in DetachTargets
    /\ Ran = {}
    /\ readers = {}
    /\ writers = {}
    /\ frames = [p \in {Top} |-> [NewFrame(target, "detached") EXCEPT !.pc = "DLookup"]]
    /\ goos \in GOOS
    /\ \E w \in StartWorlds : store = w.store /\ procs = w.procs /\ logs = w.logs
    /\ host = NoHost
    /\ op = NoOp
    /\ prev = NoOp
    /\ nops = 0

\* part_003:438  os.Create(logFile): the file is made, or truncated if it is
\* there already
Create(l, path) == [f \in {path} |-> <<>>] @@ l

\* the error of the dependencies is ignored
DAfterDepsIgnoring(f, err) == [f EXCEPT !.pc = "DPrep"]

\* part_003:368-370  if err := r.runDependenciesParallel(task.Deps); err != nil
\* { return nil, fmt.Errorf("dependencies failed: %w", err) }
DAfterDeps(f, err) ==
    IF IsErr(err) THEN Return(f, Wrap(<<"dependencies failed", "">>, err))
    ELSE [f EXCEPT !.pc = "DPrep"]

\* part_003:360-368 and 178-196: the lookup of the task, and the start of its
\* dependencies
DLookup(p) ==
    /\ frames[p].pc = "DLookup"
    /\ LET name == frames[p].task IN
       IF name \notin DOMAIN Tasks
       THEN frames' = [frames EXCEPT ![p] = Return(@, MkErr("task not found", name, <<>>))]
       ELSE LET deps == Tasks[name].Deps
                new == Spawned(p, deps)
            IN  frames' =
                  [q \in DOMAIN frames \cup DOMAIN new |->
                     IF q \in DOMAIN new THEN new[q]
                     ELSE IF q # p THEN frames[q]
                     ELSE IF Len(deps) = 0 THEN [frames[p] EXCEPT !.pc = "DPrep"]
                     ELSE IF Len(deps) = 1 THEN [frames[p] EXCEPT !.pc = "DWaitInline"]
                     ELSE [frames[p] EXCEPT !.pc = "DWgWait", !.wg = Len(deps)]]
    /\ UNCHANGED <<dvars, cfg, target, Ran, readers, writers>>

\* part_003:181 and 368-370: the inline call of the only dependency returns
DInlineReturn(p) ==
    /\ frames[p].pc = "DWaitInline"
    /\ LET c == Child(p, 1) IN
       /\ frames[c].pc = "Ret"
       /\ frames' = [frames EXCEPT
                       ![c].pc = "Exited",
                       ![p] = DAfterDeps(@, frames[c].err)]
    /\ UNCHANGED <<dvars, cfg, target, Ran, readers, writers>>

\* part_003:198-208 and 368-370: wg.Wait(), close(errChan), the first error
DWgWait(p) ==
    /\ frames[p].pc = "DWgWait"
    /\ WaitReturns(frames[p])
    /\ frames' = [frames EXCEPT ![p] =
                    DAfterDeps([@ EXCEPT !.closed = TRUE], FirstError(frames[p].errChan))]
    /\ UNCHANGED <<dvars, cfg, target, Ran, readers, writers>>

\* part_003:374-391: the logs directory is made, the log file is named, a
\* task without commands is refused
DPrep(p) ==
    /\ frames[p].pc = "DPrep"
    /\ \E mkdirOk \in BOOLEAN, timestamp \in Timestamps :
         IF ~mkdirOk
         THEN /\ frames' = [frames EXCEPT ![p] =
                              Return(@, MkErr("failed to create logs directory", "", <<>>))]
              /\ host' = host
         ELSE /\ host' = [host EXCEPT !.logFile = LogPath(frames[p].task, timestamp)]
              /\ frames' = [frames EXCEPT ![p] =
                    IF Len(Tasks[frames[p].task].Cmds) = 0
                    THEN Return(@, MkErr("no commands to run", frames[p].task, <<>>))
                    ELSE [@ EXCEPT !.pc = "DSetup"]]
    /\ UNCHANGED <<cfg, target, Ran, readers, writers, goos, store, procs, op, prev, nops, logs>>

\* part_003:394-412: the head of the loop over setupCmds (every command but
\* the last): the next one is rendered by expandVars alone and started
DSetup(p) ==
    /\ frames[p].pc = "DSetup"
    /\ LET f == frames[p]
           cmds == Tasks[f.task].Cmds
           i == Len(f.rendered) + 1
       IN  IF i >= Len(cmds)
           THEN frames' = [frames EXCEPT ![p].pc = "DSpawn"]
           ELSE LET e == expandVars(cmds[i]) IN
                IF ~e.ok
                THEN frames' = [frames EXCEPT ![p] = Return(@, MkErr("template", "", cmds[i]))]
                ELSE frames' = [frames EXCEPT ![p] =
                                  [@ EXCEPT !.rendered = Append(@, e.out), !.pc = "DSetupRun"]]
    /\ UNCHANGED <<dvars, cfg, target, Ran, readers, writers>>

\* the exit status of a setup command is ignored
DSetupRunIgnoringExit(p) ==
    /\ frames[p].pc = "DSetupRun"
    /\ \E code \in ExitCodes :
         frames' = [frames EXCEPT ![p] = [@ EXCEPT !.exits = Append(@, code), !.pc = "DSetup"]]
    /\ UNCHANGED <<dvars, cfg, target, Ran, readers, writers>>

\* part_003:413-416: cmd.Run() of a setup command returns
DSetupRun(p) ==
    /\ frames[p].pc = "DSetupRun"
    /\ \E code \in ExitCodes :
         frames' = [frames EXCEPT ![p] =
            IF CmdFailed(code)
            THEN Return([@ EXCEPT !.exits = Append(@, code)],
                        MkErr("setup command failed", "", frames[p].rendered[Len(frames[p].rendered)]))
            ELSE [@ EXCEPT !.exits = Append(@, code), !.pc = "DSetup"]]
    /\ UNCHANGED <<dvars, cfg, target, Ran, readers, writers>>

\* part_003:421-463: the last command is rendered, the log file is created
\* (os.Create: a file that is there is truncated) and the process is
\* started, without waiting for it
DSpawn(p) ==
    /\ frames[p].pc = "DSpawn"
    /\ LET f == frames[p]
           mainCmd == Tasks[f.task].Cmds[Len(Tasks[f.task].Cmds)]
           e == expandVars(mainCmd)
       IN  IF ~e.ok
           THEN /\ frames' = [frames EXCEPT ![p] = Return(@, MkErr("template", "", mainCmd))]
                /\ UNCHANGED <<procs, host, logs>>
           ELSE \E createOk \in BOOLEAN, startOk \in BOOLEAN, shape \in Shapes :
                  IF ~createOk
                  THEN /\ frames' = [frames EXCEPT ![p] =
                                       Return(@, MkErr("failed to create log file", "", <<>>))]
                       /\ UNCHANGED <<procs, host, logs>>
                  ELSE IF ~startOk
                  THEN /\ frames' = [frames EXCEPT ![p] =
                                       Return(@, MkErr("failed to start detached process", "", <<>>))]
                       /\ logs' = Create(logs, host.logFile)
                       /\ UNCHANGED <<procs, host>>
                  ELSE /\ procs' = Started(NewPid, e.out, shape, host.logFile) @@ procs
                       /\ logs' = Create(logs, host.logFile)
                       /\ host' = [host EXCEPT !.pid = NewPid]
                       /\ frames' = [frames EXCEPT ![p] =
                                       [@ EXCEPT !.rendered = Append(@, e.out), !.pc = "DSave"]]
    /\ UNCHANGED <<cfg, target, Ran, readers, writers, goos, store, op, prev, nops>>

\* part_003:466-477: the record is saved; a failure to save it is a warning
DSave(p) ==
    /\ frames[p].pc = "DSave"
    /\ LET f == frames[p] IN
       \E ok \in BOOLEAN :
         /\ store' = IF ok
                      THEN saveDetachedProcess(store,
                              DetachedProcess(host.pid, f.task, f.rendered[Len(f.rendered)], host.logFile))
                      ELSE store
         /\ host' = [host EXCEPT !.saved = IF ok THEN "ok" ELSE "failed"]
    /\ frames' = [frames EXCEPT ![p].pc = "DGo"]
    /\ UNCHANGED <<cfg, target, Ran, readers, writers, goos, procs, op, prev, nops, logs>>

\* the task started is marked as ran when the start returns
DReturnMarking(p) ==
    /\ frames[p].pc = "DGo"
    /\ host' = [host EXCEPT !.reaper = "waiting"]
    /\ Ran' = Ran \cup {frames[p].task}
    /\ frames' = [frames EXCEPT ![p] = Return(@, NilErr)]
    /\ UNCHANGED <<cfg, target, readers, writers, goos, store, procs, op, prev, nops, logs>>

\* part_003:479-490: the reaper goroutine is started and the record is
\* returned to the caller
DReturn(p) ==
    /\ frames[p].pc = "DGo"
    /\ host' = [host EXCEPT !.reaper = "waiting"]
    /\ frames' = [frames EXCEPT ![p] = Return(@, NilErr)]
    /\ UNCHANGED <<cfg, target, Ran, readers, writers, goos, store, procs, op, prev, nops, logs>>

\* a change of the process table is noted in the operation in progress
Moved(o) == IF o.kind = "none" THEN o ELSE [o EXCEPT !.moved = TRUE]

\* a process ends by itself
Exit(pid) ==
    /\ isProcessRunning(pid)
    /\ procs' = [procs EXCEPT ![pid].alive = FALSE]
    /\ op' = Moved(op)
    /\ UNCHANGED <<cfg, target, Ran, readers, writers, frames, goos, store, host, prev, nops, logs>>

\* part_003:484-488: the reaper goroutine: cmd.Wait() returns once the
\* process has ended, then removeDetachedProcess; it runs only as long as
\* the process of its invocation runs
Reaper ==
    /\ host.running
    /\ host.reaper = "waiting"
    /\ ~isProcessRunning(host.pid)
    /\ store' = removeDetachedProcess(store, host.pid)
    /\ host' = [host EXCEPT !.reaper = "done"]
    /\ UNCHANGED <<cfg, target, Ran, readers, writers, frames, goos, procs, op, prev, nops, logs>>

\* the invocation ends and takes the processes it started with it
InvocationEndsKilling ==
    /\ host.running
    /\ \A p \in DOMAIN frames : frames[p].pc \in {"Ret", "Exited"}
    /\ host' = [host EXCEPT !.running = FALSE]
    /\ procs' = [q \in DOMAIN procs |->
                    IF q = host.pid
                    THEN [procs[q] EXCEPT !.alive = FALSE] ELSE procs[q]]
    /\ UNCHANGED <<cfg, target, Ran, readers, writers, frames, goos, store, op, prev, nops, logs>>

\* cmd/detach.go:17-39: the command returns after RunTaskDetached and the
\* process of the invocation ends; its goroutines end with it
InvocationEnds ==
    /\ host.running
    /\ \A p \in DOMAIN frames : frames[p].pc \in {"Ret", "Exited"}
    /\ host' = [host EXCEPT !.running = FALSE]
    /\ UNCHANGED <<cfg, target, Ran, readers, writers, frames, goos, store, procs, op, prev, nops, logs>>

NextD ==
    \/ \E p \in DOMAIN frames : RLock(p)
    \/ \E p \in DOMAIN frames : Check1(p)
    \/ \E p \in DOMAIN frames : Lookup(p)
    \/ \E p \in DOMAIN frames : InlineReturn(p)
    \/ \E p \in DOMAIN frames : GoSend(p)
    \/ \E p \in DOMAIN frames : WgDone(p)
    \/ \E p \in DOMAIN frames : WgWait(p)
    \/ \E p \in DOMAIN frames : Lock(p)
    \/ \E p \in DOMAIN frames : Check2(p)
    \/ \E p \in DOMAIN frames : PromptField(p)
    \/ \E p \in DOMAIN frames : Mark(p)
    \/ \E p \in DOMAIN frames : ExecNext(p)
    \/ \E p \in DOMAIN frames : CmdFinish(p)
    \/ DLookup(Top)
    \/ DInlineReturn(Top)
    \/ DWgWait(Top)
    \/ DPrep(Top)
    \/ DSetup(Top)
    \/ DSetupRun(Top)
    \/ DSpawn(Top)
    \/ DSave(Top)
    \/ DReturn(Top)
    \/ \E pid \in HostProcs : Exit(pid)
    \/ Reaper
    \/ InvocationEnds

SpecD == InitD /\ [][NextD]_vars

\* ------------------------------------------------------- list and stop
DigitChars == <<"0", "1", "2", "3", "4", "5", "6", "7", "8", "9">>

IsDigit(c) == \E i \in 1..Len(DigitChars) : DigitChars[i] = c

DigitVal(c) == (CHOOSE i \in 1..Len(DigitChars) : DigitChars[i] = c) - 1

RECURSIVE AtoiDigits(_)
AtoiDigits(s) ==
    IF s = <<>> THEN 0
    ELSE AtoiDigits(SubSeq(s, 1, Len(s) - 1)) * 10 + DigitVal(s[Len(s)])

\* part_003:582  strconv.Atoi over identifiers without a sign: the value of
\* a non-empty string of digits, an error for anything else
Atoi(s) ==
    IF s # <<>> /\ \A i \in 1..Len(s) : IsDigit(s[i])
    THEN [ok |-> TRUE, n |-> AtoiDigits(s)]
    ELSE [ok |-> FALSE, n |-> 0]

\* the identifiers given to stop: task names and numbers
Identifiers ==
    {<<"S">>, <<"K">>, <<"z">>, <<"0">>, <<"1">>, <<"2">>, <<"3">>}

\* part_003:525  filepath.Glob: the record files, sorted by name (the pids
\* here have one digit, so the order of the names is that of the numbers)
Glob(s) ==
    CHOOSE q \in [1..Cardinality(DOMAIN s) -> DOMAIN s] :
        \A i, j \in 1..Cardinality(DOMAIN s) : i < j => q[i] < q[j]

\* part_003:578-600: the target of stop among the processes listed: the
\* number itself for a numeric identifier (found: a record has that pid),
\* the pid of the first record of that task name otherwise, 0 for none
ResolveStop(identifier, processes) ==
    LET a == Atoi(identifier)
        byPid == {i \in 1..Len(processes) : processes[i].PID = a.n}
        byName == {i \in 1..Len(processes) : processes[i].TaskName = identifier}
    IN  IF a.ok THEN [targetPID |-> a.n, found |-> byPid # {}]
        ELSE IF byName # {}
        THEN [targetPID |-> processes[CHOOSE i \in byName : \A j \in byName : i <= j].PID,
              found |-> TRUE]
        ELSE [targetPID |-> 0, found |-> FALSE]

\* the live processes started, directly or not, by pid
RECURSIVE Tree(_)
Tree(S) ==
    LET more == {q \in DOMAIN procs : procs[q].parent \in S} \ S
    IN  IF more = {} THEN S ELSE Tree(S \cup more)

\* the process table after the processes of K have ended
Ended(K) == [q \in DOMAIN procs |-> IF q \in K THEN [procs[q] EXCEPT !.alive = FALSE] ELSE procs[q]]

Alive == {q \in DOMAIN procs : procs[q].alive}

\* an invocation that has ended
Gone == [NoHost EXCEPT !.running = FALSE]

\* The store and the process table a list or stop may find.  Process 1 is
\* a process of the host that no detached run has started.
\*  - no record;
\*  - two live records of task S: process 2 has a child (4), process 3
\*    ignores SIGTERM; the invocations that started them have ended;
\*  - the live record of process 2, whose invocation still runs with its
\*    reaper waiting, and the record of process 3, which has ended after
\*    its invocation.
\* Every process recorded has written a line to its log file.
ControlWorlds ==
    LET other == Proc(0, FALSE, <<"e">>, <<>>)
        file(pid) == LogPath(IF pid = 2 THEN "S" ELSE "K", IF pid = 2 THEN "t0" ELSE "t1")
        fileS(pid) == LogPath("S", IF pid = 2 THEN "t0" ELSE "t1")
        recS(pid) == DetachedProcess(pid, "S", <<"s", "$", "q", "x">>, fileS(pid))
        recK(pid) == DetachedProcess(pid, "K", <<"k">>, file(pid))
    IN  {[store |-> <<>>,
          procs |-> [q \in {1} |-> other],
          host |-> Gone,
          logs |-> <<>>],
         [store |-> [q \in {2, 3} |-> recS(q)],
          procs |-> [q \in {1, 2, 3, 4} |->
                      IF q = 1 THEN other
                      ELSE IF q = 2 THEN Proc(0, FALSE, <<"s", "$", "q", "x">>, fileS(2))
                      ELSE IF q = 3 THEN Proc(0, TRUE, <<"s", "$", "q", "x">>, fileS(3))
                      ELSE Proc(2, FALSE, <<>>, fileS(2))],
          host |-> Gone,
          logs |-> [f \in {fileS(2), fileS(3)} |-> Written(1)]],
         [store |-> [q \in {2, 3} |-> IF q = 2 THEN recS(q) ELSE recK(q)],
          procs |-> [q \in {1, 2, 3} |->
                      IF q = 1 THEN other
                      ELSE IF q = 2 THEN Proc(0, FALSE, <<"s", "$", "q", "x">>, file(2))
                      ELSE [Proc(0, FALSE, <<"k">>, file(3)) EXCEPT !.alive = FALSE]],
          host |-> [running |-> TRUE, pid |-> 2, saved |-> "ok", reaper |-> "waiting",
                    logFile |-> file(2)],
          logs |-> [f \in {file(2), file(3)} |-> Written(1)]]}

\* a later invocation (t :ps, t :stop): its Runner has run no task
InitC ==
    /\ cfg = DetachCfg
    /\ target = "S"
    /\ Ran = {}
    /\ readers = {}
    /\ writers = {}
    /\ frames = <<>>
    /\ goos \in GOOS
    /\ \E w \in ControlWorlds :
         store = w.store /\ procs = w.procs /\ host = w.host /\ logs = w.logs
    /\ op = NoOp
    /\ prev = NoOp
    /\ nops = 0

\* part_003:518-528: ListDetachedProcesses is called: the record files are
\* collected (none when the directory is missing)
Begun(kind, identifier) ==
    [NoOp EXCEPT !.kind = kind, !.id = identifier, !.pc = "list",
                 !.files = Glob(store), !.dead = DOMAIN procs \ Alive]

\* what is kept of the operation before: what it returned and removed, and
\* whether the process table changed since it began
Summary(o) == [NoOp EXCEPT !.kind = o.kind, !.ret = o.ret, !.del = o.del, !.moved = o.moved]

\* cmd/ps.go:28-34  t :ps calls ListDetachedProcesses
ListBegin ==
    /\ op.pc = "done"
    /\ nops < MaxOps
    /\ op' = Begun("list", <<>>)
    /\ prev' = Summary(op)
    /\ nops' = nops + 1
    /\ UNCHANGED <<cfg, target, Ran, readers, writers, frames, goos, store, procs, host, logs>>

\* part_003:572-573  StopDetachedProcess(identifier) calls
\* ListDetachedProcesses
StopBegin(identifier) ==
    /\ op.pc = "done"
    /\ nops < MaxOps
    /\ op' = Begun("stop", identifier)
    /\ prev' = Summary(op)
    /\ nops' = nops + 1
    /\ UNCHANGED <<cfg, target, Ran, readers, writers, frames, goos, store, procs, host, logs>>

\* part_003:531-549: one iteration of the loop over the record files: a
\* file that cannot be read is skipped, the record of a running process is
\* kept for the result, the file of any other is removed
ListStep ==
    /\ op.pc = "list"
    /\ op.files # <<>>
    /\ LET pid == Head(op.files) IN
       IF pid \notin DOMAIN store
       THEN /\ op' = [op EXCEPT !.files = Tail(@)]
            /\ store' = store
       ELSE IF isProcessRunning(store[pid].PID)
       THEN /\ op' = [op EXCEPT !.files = Tail(@), !.ret = Append(@, store[pid])]
            /\ store' = store
       ELSE /\ op' = [op EXCEPT !.files = Tail(@), !.del = @ \cup {pid},
                                 !.lost = Append(@, store[pid])]
            /\ store' = [q \in DOMAIN store \ {pid} |-> store[q]]
    /\ UNCHANGED <<cfg, target, Ran, readers, writers, frames, goos, procs, host, prev, nops, logs>>

\* part_003:551  ListDetachedProcesses returns to t :ps
ListReturn ==
    /\ op.kind = "list"
    /\ op.pc = "list"
    /\ op.files = <<>>
    /\ op' = [op EXCEPT !.pc = "done"]
    /\ UNCHANGED <<cfg, target, Ran, readers, writers, frames, goos, store, procs, host, prev, nops, logs>>

\* part_003:573-614: the list returns to StopDetachedProcess, which picks
\* its target, or returns "no detached process found"
StopResolve ==
    /\ op.kind = "stop"
    /\ op.pc = "list"
    /\ op.files = <<>>
    /\ LET r == ResolveStop(op.id, op.ret) IN
       op' = IF r.targetPID = 0
             THEN [op EXCEPT !.pc = "done", !.err = "no detached process found"]
             ELSE [op EXCEPT !.target = r.targetPID, !.found = r.found,
                             !.pc = IF goos = "windows" THEN "taskkill" ELSE "killgroup"]
    /\ UNCHANGED <<cfg, target, Ran, readers, writers, frames, goos, store, procs, host, prev, nops, logs>>

\* part_003:633-642: the record file of the target is removed and nil is
\* returned
Stopped(o) ==
    [o EXCEPT !.pc = "done", !.err = "nil",
              !.removed = IF o.target \in DOMAIN store THEN {o.target} ELSE {}]

\* part_003:609-612, 633-642: taskkill /F /T /PID <target> ends the target
\* and the processes below it; it fails when the target does not run
TaskKill ==
    /\ op.pc = "taskkill"
    /\ IF isProcessRunning(op.target)
       THEN LET K == Tree({op.target}) \cap Alive IN
            /\ procs' = Ended(K)
            /\ store' = removeDetachedProcess(store, op.target)
            /\ op' = Stopped([op EXCEPT !.killed = K, !.moved = TRUE])
       ELSE /\ op' = [op EXCEPT !.pc = "done", !.err = "failed to kill process tree"]
            /\ UNCHANGED <<store, procs>>
    /\ UNCHANGED <<cfg, target, Ran, readers, writers, frames, goos, host, prev, nops, logs>>

\* part_003:616-617: kill -<target>.  The process was started without a
\* process group of its own (part_003:456), so there is no group of that
\* number: the command fails and signals nothing
KillGroup ==
    /\ op.pc = "killgroup"
    /\ op' = [op EXCEPT !.gerr = TRUE, !.pc = "kill"]
    /\ UNCHANGED <<cfg, target, Ran, readers, writers, frames, goos, store, procs, host, prev, nops, logs>>

\* part_003:620-624, 633-642: kill <target> sends SIGTERM: it succeeds when
\* the process runs, and the process ends unless it ignores the signal;
\* unless both commands failed, the record is removed and nil returned
Kill ==
    /\ op.pc = "kill"
    /\ LET kerr == ~isProcessRunning(op.target)
           K == IF kerr \/ procs[op.target].ignoresTerm THEN {} ELSE {op.target}
       IN  IF op.gerr /\ kerr
           THEN /\ op' = [op EXCEPT !.kerr = TRUE, !.pc = "killforce"]
                /\ UNCHANGED <<store, procs>>
           ELSE /\ procs' = Ended(K)
                /\ store' = removeDetachedProcess(store, op.target)
                /\ op' = Stopped([op EXCEPT !.kerr = kerr, !.killed = K, !.moved = @ \/ K # {}])
    /\ UNCHANGED <<cfg, target, Ran, readers, writers, frames, goos, host, prev, nops, logs>>

\* part_003:626-629, 633-642: kill -9 <target>
KillForce ==
    /\ op.pc = "killforce"
    /\ IF isProcessRunning(op.target)
       THEN /\ procs' = Ended({op.target})
            /\ store' = removeDetachedProcess(store, op.target)
            /\ op' = Stopped([op EXCEPT !.killed = {op.target}, !.moved = TRUE])
       ELSE /\ op' = [op EXCEPT !.pc = "done", !.err = "failed to kill process"]
            /\ UNCHANGED <<store, procs>>
    /\ UNCHANGED <<cfg, target, Ran, readers, writers, frames, goos, host, prev, nops, logs>>

NextC ==
    \/ ListBegin
    \/ \E identifier \in Identifiers : StopBegin(identifier)
    \/ ListStep
    \/ ListReturn
    \/ StopResolve
    \/ TaskKill
    \/ KillGroup
    \/ Kill
    \/ KillForce
    \/ \E pid \in DOMAIN procs : Exit(pid)
    \/ Reaper
    \/ InvocationEnds

SpecC == InitC /\ [][NextC]_vars

\* ------------------------------------------------------------------ logs
\* cmd/logs.go:86-96  the number of lines asked of tail -n and of
\* Get-Content -Tail
TailN == 50

\* the lines the log files hold when t :logs is called
LogLengths == {0, 1, TailN - 1, TailN, TailN + 1}

\* cmd/logs.go:39-60: the log file of the identifier among the processes
\* listed: that of the record with that pid for a numeric identifier, that
\* of the first record of that task name otherwise, "" for none
ResolveLogs(identifier, processes) ==
    LET a == Atoi(identifier)
        byPid == {i \in 1..Len(processes) : processes[i].PID = a.n}
        byName == {i \in 1..Len(processes) : processes[i].TaskName = identifier}
        hits == IF a.ok THEN byPid ELSE byName
    IN  IF hits = {} THEN [logFile |-> <<>>, taskName |-> <<>>]
        ELSE LET proc == processes[CHOOSE i \in hits : \A j \in hits : i <= j]
             IN  [logFile |-> proc.LogFile, taskName |-> proc.TaskName]

\* the first n lines
FirstLines(lines, n) == SubSeq(lines, 1, IF Len(lines) < n THEN Len(lines) ELSE n)

\* cmd/logs.go:89-96  tail -n <n> <file> / Get-Content <file> -Tail <n>: the
\* last n lines of the file, all of them when it has fewer
LastLines(lines, n) ==
    SubSeq(lines, IF Len(lines) < n THEN 1 ELSE Len(lines) - n + 1, Len(lines))

\* an invocation of t :logs <identifier> (without --follow) finds the store
\* and the processes of ControlWorlds, with log files of LogLengths lines,
\* or with the directory of the log files removed
InitL ==
    /\ cfg = DetachCfg
    /\ target = "S"
    /\ Ran = {}
    /\ readers = {}
    /\ writers = {}
    /\ frames = <<>>
    /\ goos \in GOOS
    /\ \E w \in ControlWorlds, n \in LogLengths, kept \in BOOLEAN :
         /\ store = w.store /\ procs = w.procs /\ host = w.host
         /\ logs = IF kept THEN [f \in DOMAIN w.logs |-> Written(n)] ELSE <<>>
    /\ op = NoOp
    /\ prev = NoOp
    /\ nops = 0

\* cmd/logs.go:21-33  t :logs <identifier> calls ListDetachedProcesses
LogsBegin(identifier) ==
    /\ op.kind = "none"
    /\ op' = Begun("logs", identifier)
    /\ prev' = Summary(op)
    /\ nops' = nops + 1
    /\ UNCHANGED <<cfg, target, Ran, readers, writers, frames, goos, store, procs, host, logs>>

\* cmd/logs.go:39-66: the list returns and the log file of the identifier
\* is looked up: "No detached task found" when there is none
LogsResolve ==
    /\ op.kind = "logs"
    /\ op.pc = "list"
    /\ op.files = <<>>
    /\ LET r == ResolveLogs(op.id, op.ret) IN
       op' = IF r.logFile = <<>>
             THEN [op EXCEPT !.pc = "done", !.err = "no detached task found"]
             ELSE [op EXCEPT !.logFile = r.logFile, !.found = TRUE, !.pc = "stat"]
    /\ UNCHANGED <<cfg, target, Ran, readers, writers, frames, goos, store, procs, host, prev, nops, logs>>

\* cmd/logs.go:68-72  os.Stat(logFile): "Log file not found" when the file
\* is not there
LogsStat ==
    /\ op.pc = "stat"
    /\ op' = IF op.logFile \in DOMAIN logs
             THEN [op EXCEPT !.pc = "tail"]
             ELSE [op EXCEPT !.pc = "done", !.err = "log file not found"]
    /\ UNCHANGED <<cfg, target, Ran, readers, writers, frames, goos, store, procs, host, prev, nops, logs>>

\* cmd/logs.go:80-113: tail (Get-Content on Windows) writes the last TailN
\* lines of the file to the output of the invocation
LogsTail ==
    /\ op.pc = "tail"
    /\ op' = [op EXCEPT !.pc = "done", !.shown = LastLines(logs[op.logFile], TailN)]
    /\ UNCHANGED <<cfg, target, Ran, readers, writers, frames, goos, store, procs, host, prev, nops, logs>>

\* part_003:444-445  cmd.Stdout = logFileHandle, cmd.Stderr = logFileHandle:
\* a running process writes a line to its log file (MaxOut bounds the
\* lines written while t :logs runs)
Output(pid) ==
    /\ isProcessRunning(pid)
    /\ procs[pid].out \in DOMAIN logs
    /\ op.kind = "logs"
    /\ op.wrote < MaxOut
    /\ logs' = [logs EXCEPT ![procs[pid].out] = Append(@, Len(@) + 1)]
    /\ op' = [op EXCEPT !.wrote = @ + 1]
    /\ UNCHANGED <<cfg, target, Ran, readers, writers, frames, goos, store, procs, host, prev, nops>>

NextL ==
    \/ \E identifier \in Identifiers : LogsBegin(identifier)
    \/ ListStep
    \/ LogsResolve
    \/ LogsStat
    \/ LogsTail
    \/ \E pid \in DOMAIN procs : Output(pid)
    \/ \E pid \in DOMAIN procs : Exit(pid)
    \/ Reaper
    \/ InvocationEnds

SpecL == InitL /\ [][NextL]_vars

\* ------------------------------------------- the sequential runner
\* src/runner.go: Runner.RunTask without goroutines, locks and prompts.  Its
\* calls are frames with the pcs SCheck, SDeps, SWait, SExec, SCmdRun, SMark.

\* the configurations given to the sequential runner (its Task has no
\* interactive fields): the fan-in, the lazy names, the templates
SeqCfgs == {1, 2, 5}

\* src/runner.go:35  a fresh call of RunTask(taskName)
SeqFrame(taskName) == [NewFrame(taskName, "seq") EXCEPT !.pc = "SCheck"]

\* the dependencies of the call p that were called so far
Called(p) == {k \in 1..Len(Tasks[frames[p].task].Deps) : Child(p, k) \in DOMAIN frames}

InitS ==
    /\ cfg \in SeqCfgs
    /\ target \in Targets[cfg]
    /\ Ran = {}
    /\ readers = {}
    /\ writers = {}
    /\ frames = [p \in {Top} |-> SeqFrame(target)]
    /\ goos = "unix"
    /\ store = <<>>
    /\ procs = <<>>
    /\ host = NoHost
    /\ op = NoOp
    /\ prev = NoOp
    /\ nops = 0
    /\ logs = <<>>

\* the error of a dependency is ignored
SAfterDepIgnoring(f, err) == [f EXCEPT !.pc = "SDeps"]

\* src/runner.go:47-49  if err := r.RunTask(dep); err != nil { return err }
SAfterDep(f, err) == IF IsErr(err) THEN Return(f, err) ELSE [f EXCEPT !.pc = "SDeps"]

\* src/runner.go:36-43: a task that ran returns nil, a name that is not a
\* task is an error
SCheck(p) ==
    /\ frames[p].pc = "SCheck"
    /\ LET name == frames[p].task IN
       frames' = [frames EXCEPT ![p] =
                    IF name \in Ran THEN Return(@, NilErr)
                    ELSE IF name \notin DOMAIN Tasks
                    THEN Return(@, MkErr("task not found", name, <<>>))
                    ELSE [@ EXCEPT !.pc = "SDeps"]]
    /\ UNCHANGED <<dvars, cfg, target, Ran, readers, writers>>

\* src/runner.go:46-47: the head of the loop over task.Deps: RunTask is
\* called for the next dependency; after the last one the commands follow
SDeps(p) ==
    /\ frames[p].pc = "SDeps"
    /\ LET deps == Tasks[frames[p].task].Deps
           k == Cardinality(Called(p)) + 1
       IN  IF k > Len(deps)
           THEN frames' = [frames EXCEPT ![p].pc = "SExec"]
           ELSE frames' = [q \in DOMAIN frames \cup {Child(p, k)} |->
                             IF q = Child(p, k) THEN SeqFrame(deps[k])
                             ELSE IF q = p THEN [frames[p] EXCEPT !.pc = "SWait"]
                             ELSE frames[q]]
    /\ UNCHANGED <<dvars, cfg, target, Ran, readers, writers>>

\* src/runner.go:47-49: the call for the dependency returns
SDepReturn(p) ==
    /\ frames[p].pc = "SWait"
    /\ LET c == Child(p, Cardinality(Called(p))) IN
       /\ frames[c].pc = "Ret"
       /\ frames' = [frames EXCEPT
                       ![c].pc = "Exited",
                       ![p] = SAfterDep(@, frames[c].err)]
    /\ UNCHANGED <<dvars, cfg, target, Ran, readers, writers>>

\* src/runner.go:55-62: the head of the loop over task.Cmds: the next
\* command is rendered and started
SExec(p) ==
    /\ frames[p].pc = "SExec"
    /\ LET f == frames[p]
           cmds == Tasks[f.task].Cmds
           i == Len(f.rendered) + 1
       IN  IF i > Len(cmds)
           THEN frames' = [frames EXCEPT ![p].pc = "SMark"]
           ELSE LET e == expandVars(cmds[i]) IN
                IF ~e.ok
                THEN frames' = [frames EXCEPT ![p] = Return(@, MkErr("template", "", cmds[i]))]
                ELSE frames' = [frames EXCEPT ![p] =
                                  [@ EXCEPT !.rendered = Append(@, e.out), !.pc = "SCmdRun"]]
    /\ UNCHANGED <<dvars, cfg, target, Ran, readers, writers>>

\* src/runner.go:67-71: cmd.Run() returns with the exit status
SCmdFinish(p) ==
    /\ frames[p].pc = "SCmdRun"
    /\ \E code \in ExitCodes :
         frames' = [frames EXCEPT ![p] =
            IF CmdFailed(code)
            THEN Return([@ EXCEPT !.exits = Append(@, code)],
                        MkErr("command failed", "", frames[p].rendered[Len(frames[p].rendered)]))
            ELSE [@ EXCEPT !.exits = Append(@, code), !.pc = "SExec"]]
    /\ UNCHANGED <<dvars, cfg, target, Ran, readers, writers>>

\* src/runner.go:74-75  r.Ran[taskName] = true; return nil
SMark(p) ==
    /\ frames[p].pc = "SMark"
    /\ Ran' = Ran \cup {frames[p].task}
    /\ frames' = [frames EXCEPT ![p] = Return([@ EXCEPT !.marked = TRUE], NilErr)]
    /\ UNCHANGED <<dvars, cfg, target, readers, writers>>

NextS ==
    \/ \E p \in DOMAIN frames : SCheck(p)
    \/ \E p \in DOMAIN frames : SDeps(p)
    \/ \E p \in DOMAIN frames : SDepReturn(p)
    \/ \E p \in DOMAIN frames : SExec(p)
    \/ \E p \in DOMAIN frames : SCmdFinish(p)
    \/ \E p \in DOMAIN frames : SMark(p)

SpecS == InitS /\ [][NextS]_vars


\* ------------------------------------------------------- derived predicates
Returned(f) == f.pc \in {"Ret", "Deferred", "Exited"}

Frames == DOMAIN frames

\* the calls that started at least one command of task T
StartedBy(T) == {p \in Frames : frames[p].task = T /\ frames[p].rendered # <<>>}

\* the calls that execute the body of task T (passed the re-check)
BodyOf(T) == {p \in Frames : frames[p].task = T /\ frames[p].marked}

\* the call ran every command of its task and each exited with status zero
Completed(p) ==
    LET f == frames[p] IN
    /\ f.marked /\ Returned(f) /\ ~IsErr(f.err)
    /\ Len(f.rendered) = Len(Tasks[f.task].Cmds)
    /\ Len(f.exits) = Len(Tasks[f.task].Cmds)
    /\ \A k \in 1..Len(f.exits) : f.exits[k] = 0

\* a command of the call is running, or the call has not yet run them all
Unfinished(p) == frames[p].marked /\ ~Returned(frames[p])

DepsOf(n) ==
    IF n \in DOMAIN Tasks THEN {Tasks[n].Deps[k] : k \in 1..Len(Tasks[n].Deps)} ELSE {}

RECURSIVE ClosureOf(_)
ClosureOf(S) ==
    LET nxt == S \cup UNION {DepsOf(n) : n \in S}
    IN  IF nxt = S THEN S ELSE ClosureOf(nxt)

\* T and everything reachable from T through deps lists
Closure(T) == ClosureOf({T})

\* the names that have T among their direct or transitive dependencies
Dependents(T) == {P \in DOMAIN Tasks : P # T /\ T \in Closure(P)}

TopReturned == frames[Top].pc = "Ret"

\* some call has returned an error
RunFailed == \E p \in Frames : IsErr(frames[p].err)

\* ------------------------------------------------------------------ claims
\* C1: within one invocation of RunTask every task's command sequence is
\* started by at most one call of the resolver, whatever the number of edges,
\* sibling branches or duplicate deps entries that reach it.
C1_AtMostOnce ==
    \A T \in DOMAIN Tasks : Cardinality(StartedBy(T)) <= 1 /\ Cardinality(BodyOf(T)) <= 1

\* the diamond was run to the end: every branch made its own call for C, and
\* exactly one of those calls ran C's commands
C1_Witness ==
    /\ cfg = 1 /\ target = "D" /\ TopReturned
    /\ \A k \in 1..Width : Child(Child(Top, k), 1) \in Frames
    /\ Cardinality(StartedBy("C")) = 1
    /\ Cardinality({p \in Frames : frames[p].task = "C" /\ ~frames[p].marked /\ Returned(frames[p])}) = Width - 1

\* C2: when the top-level RunTask returns success, every task of the closure
\* of the target was run by exactly one call, which ran all its commands with
\* exit status zero; RunTask returns an error when a call for a task of the
\* closure failed or the target is not a task.
C2_SuccessMeansAllRan ==
    TopReturned =>
        /\ ~IsErr(frames[Top].err) =>
              \A T \in Closure(target) :
                  /\ T \in DOMAIN Tasks
                  /\ Cardinality(BodyOf(T)) = 1
                  /\ \A p \in BodyOf(T) : Completed(p)
        /\ (RunFailed \/ target \notin DOMAIN Tasks) => IsErr(frames[Top].err)

\* the diamond returned success
C2_Witness ==
    /\ cfg = 1 /\ target = "D" /\ TopReturned /\ ~IsErr(frames[Top].err)
    /\ Cardinality(Closure(target)) = Width + 2

\* C3: the body of a task P (its prompts and its commands) starts only after
\* the command sequence of each of its dependencies D has finished, or the
\* run has failed; also when D is executed by another branch.
C3_BodyAfterDeps ==
    \A p \in Frames :
        (frames[p].marked \/ frames[p].pc \in {"Prompt", "Mark"}) =>
            \/ RunFailed
            \/ \A D \in DepsOf(frames[p].task) :
                  /\ BodyOf(D) # {}
                  /\ \A q \in BodyOf(D) : Returned(frames[q])

\* C4: once a command of D has failed, no task that depends on D (directly
\* or transitively) starts a command, and the top-level RunTask returns an
\* error.
CmdFailedIn(D) ==
    \E q \in BodyOf(D) : \E k \in 1..Len(frames[q].exits) : frames[q].exits[k] # 0

C4_NoDependentAfterFailure ==
    /\ [][\A D \in DOMAIN Tasks : CmdFailedIn(D) =>
            \A P \in Dependents(D) : \A p \in Frames :
                frames[p].task = P => frames'[p].rendered = frames[p].rendered]_vars
    /\ [](TopReturned /\ (\E D \in DOMAIN Tasks : CmdFailedIn(D)) => IsErr(frames[Top].err))


\* C5: the commands a call has started are a prefix of the declared list, in
\* order and one at a time; a non-zero exit stops the sequence with an error
\* that carries the rendered string of the failing command; the executor
\* returns nil only when every command exited zero.
C5_CommandPrefix ==
    \A p \in Frames :
        LET f == frames[p]
            cmds == Tasks[f.task].Cmds
            n == Len(f.rendered)
        IN  f.task \in DOMAIN Tasks =>
            /\ n <= Len(cmds)
            /\ \A k \in 1..n :
                  \E order \in Perms(DOMAIN f.inputs) :
                      f.rendered[k] = expandVarsWithInteractive(expandVars(cmds[k]).out, f.inputs, order)
            /\ Len(f.exits) = (IF f.pc = "CmdRun" THEN n - 1 ELSE n)
            /\ \A k \in 1..Len(f.exits) :
                  f.exits[k] # 0 =>
                      /\ k = n
                      /\ Returned(f)
                      /\ f.err = MkErr("command failed", "", f.rendered[k])
            /\ (f.marked /\ Returned(f) /\ ~IsErr(f.err)) =>
                  /\ n = Len(cmds)
                  /\ \A k \in 1..n : f.exits[k] = 0

\* the first of several commands exited non-zero and the call returned
C5_Witness ==
    \E p \in Frames :
        /\ cfg = 1 /\ frames[p].task = "C"
        /\ frames[p].exits = <<1>>
        /\ Len(Tasks["C"].Cmds) >= 2
        /\ Returned(frames[p])

\* C6: a name that is not a task gets a not-found error, runs nothing and is
\* never put in Ran; the check is made only when the name is reached; a task
\* with such a name in its deps never runs its body and returns an error.
C6_MissingTask ==
    /\ \A p \in Frames :
          LET f == frames[p] IN
          f.task \notin DOMAIN Tasks =>
              /\ ~f.marked /\ f.rendered = <<>> /\ f.wg = 0
              /\ f.task \notin Ran
              /\ Returned(f) => f.err = MkErr("task not found", f.task, <<>>)
    /\ target \notin DOMAIN Tasks => Ran = {} /\ Frames = {Top}
    /\ \A p \in Frames :
          frames[p].err.kind = "task not found" =>
              /\ frames[p].err.name \notin DOMAIN Tasks
              /\ \E q \in Frames : frames[q].task = frames[p].err.name
    /\ Closure(target) \subseteq DOMAIN Tasks =>
          \A p \in Frames : frames[p].err.kind # "task not found"
    /\ \A p \in Frames :
          LET f == frames[p] IN
          (f.task \in DOMAIN Tasks /\ ~(DepsOf(f.task) \subseteq DOMAIN Tasks)) =>
              /\ ~f.marked /\ f.rendered = <<>>
              /\ f.pc \notin {"Lock", "Check2", "Prompt", "Mark", "Exec", "CmdRun"}
              /\ Returned(f) => IsErr(f.err)

\* R: deps = [C, M] returned an error without running its body; M was looked
\* up by its own branch
C6_Witness ==
    /\ cfg = 2 /\ target = "R" /\ TopReturned
    /\ IsErr(frames[Top].err)
    /\ frames[<<2>>].err = MkErr("task not found", "M", <<>>)

\* C7: the fan-out returns only after every branch has returned; a branch is
\* not cancelled by the failure of a sibling; the fan-out returns an error
\* iff a branch failed, and that error is the first one put on the channel.
C7_FanOutJoin ==
    \A p \in Frames :
        LET f == frames[p] IN
        f.closed =>
            LET kids == {Child(p, k) : k \in 1..Len(Tasks[f.task].Deps)} IN
            /\ \A c \in kids : frames[c].pc = "Exited"
            /\ \A c \in kids : frames[c].marked => IsErr(frames[c].err) \/ Completed(c)
            /\ (f.errChan # <<>>) <=> (\E c \in kids : IsErr(frames[c].err))
            /\ f.errChan # <<>> =>
                  /\ Returned(f) /\ ~f.marked
                  /\ f.err = f.errChan[1]
            /\ f.errChan = <<>> =>
                  ~(IsErr(f.err) /\ f.err.via # <<>> /\ f.err.via[1][1] = "dependency failed")

\* R: deps = [C, M]: the branch for M failed, the branch for C ran C to the
\* end, and the fan-out returned M's error
C7_Witness ==
    /\ cfg = 2 /\ target = "R" /\ frames[Top].closed
    /\ Completed(<<1>>)
    /\ frames[Top].err = Wrap(<<"dependency failed", "M">>, MkErr("task not found", "M", <<>>))

\* C8: Ran is read only by a call that holds the mutex (for reading at the
\* first check, for writing at the re-check) and written only by the call
\* that holds it for writing; a writer excludes every other holder.
C8_LockDiscipline ==
    /\ \A p \in Frames : frames[p].pc = "Check1" => p \in readers
    /\ \A p \in Frames : frames[p].pc \in {"Check2", "Prompt", "Mark"} => p \in writers
    /\ Cardinality(writers) <= 1
    /\ writers # {} => readers = {}

\* a call is about to write Ran while another call contends for the mutex
C8_Witness ==
    \E p, q \in Frames :
        /\ p # q
        /\ frames[p].pc = "Mark"
        /\ frames[q].pc \in {"RLock", "Lock"}

\* the line holds nothing but white space
Blank(l) == \A i \in 1..Len(l) : l[i] = " "

\* t is l without its leading and trailing white space, and is not empty
TrimmedOf(l, t) ==
    /\ t # <<>> /\ t[1] # " " /\ t[Len(t)] # " "
    /\ \E a \in 0..Len(l) :
          /\ a + Len(t) <= Len(l)
          /\ SubSeq(l, a + 1, a + Len(t)) = t
          /\ Blank(SubSeq(l, 1, a))
          /\ Blank(SubSeq(l, a + Len(t) + 1, Len(l)))

\* C9: for every field asked and line read: non-blank input is stored
\* trimmed; blank input with a default stores the default (required or
\* not); blank input without default is an error for a required field and
\* the empty string otherwise; on success every declared field has a value.
C9_PromptResolution ==
    \A p \in Frames :
        LET f == frames[p] IN
        /\ \A x \in DOMAIN f.typed :
              LET l == f.typed[x]
                  pr == Tasks[f.task].Interactive[x]
              IN  l # EOF =>
                  /\ ~Blank(l) => x \in DOMAIN f.inputs /\ TrimmedOf(l, f.inputs[x])
                  /\ (Blank(l) /\ pr.Default # <<>>) =>
                        x \in DOMAIN f.inputs /\ f.inputs[x] = pr.Default
                  /\ (Blank(l) /\ pr.Default = <<>> /\ pr.Required) =>
                        /\ x \notin DOMAIN f.inputs
                        /\ Returned(f) /\ ~f.marked
                        /\ f.err = Wrap(<<"interactive input failed", "">>,
                                        MkErr("required input not provided", "", x))
                  /\ (Blank(l) /\ pr.Default = <<>> /\ ~pr.Required) =>
                        x \in DOMAIN f.inputs /\ f.inputs[x] = <<>>
        /\ f.marked => DOMAIN f.inputs = DOMAIN Tasks[f.task].Interactive

\* both fields of T1 were asked: the required one with a default was left
\* blank, the other one got a value inside white space
C9_Witness ==
    \E p \in Frames :
        /\ cfg = 3 /\ frames[p].task = "T1" /\ frames[p].marked
        /\ frames[p].typed[<<"d">>] = <<" ">>
        /\ frames[p].inputs[<<"d">>] = <<"k">>
        /\ frames[p].typed[<<"r">>] = <<" ", "v">>

\* C10: a call in which a required field without default was left blank
\* starts none of the task's commands and returns an error, and so does the
\* top-level RunTask.
C10_RequiredBlankFails ==
    \A p \in Frames :
        LET f == frames[p] IN
        (\E x \in DOMAIN f.typed :
            /\ f.typed[x] # EOF /\ Blank(f.typed[x])
            /\ Tasks[f.task].Interactive[x].Required
            /\ Tasks[f.task].Interactive[x].Default = <<>>) =>
                /\ ~f.marked /\ f.rendered = <<>>
                /\ Returned(f) /\ IsErr(f.err)
                /\ TopReturned => IsErr(frames[Top].err)

\* U: deps = [S, S]: one branch left S's required field blank and failed, the
\* other branch then ran S; RunTask(U) returned an error
C10_Witness ==
    /\ cfg = 4 /\ target = "U" /\ TopReturned /\ IsErr(frames[Top].err)
    /\ \E c \in {<<1>>, <<2>>} :
          /\ frames[c].typed = [x \in {<<"r">>} |-> <<>>]
          /\ ~frames[c].marked
    /\ \E c \in {<<1>>, <<2>>} : Completed(c)


\* C11: interactive input for a task is collected only if the task declares
\* a field, and only after the command sequence of every dependency of the
\* task has finished.
C11_PromptAfterDeps ==
    \A p \in Frames :
        LET f == frames[p] IN
        (f.pc = "Prompt" \/ DOMAIN f.typed # {}) =>
            /\ DOMAIN Tasks[f.task].Interactive # {}
            /\ \A D \in DepsOf(f.task) :
                  /\ BodyOf(D) # {}
                  /\ \A q \in BodyOf(D) : Returned(frames[q])


\* C12: every command started was rendered by the two passes in a fixed
\* order, {{.VAR}} from the static variables first and $field from the
\* interactive input second; text brought in by an interactive value is not
\* evaluated as a template (it stays literal and cannot cause a template
\* error).
C12_StaticThenInteractive ==
    \A p \in Frames :
        LET f == frames[p]
            cmds == Tasks[f.task].Cmds
            n == Len(f.rendered)
        IN  f.task \in DOMAIN Tasks =>
            /\ \A k \in 1..n :
                  LET st == ExpandTemplate(cmds[k], StaticVars) IN
                  /\ st.ok
                  /\ \E order \in Perms(DOMAIN f.inputs) :
                        f.rendered[k] = ReplaceInOrder(st.out, f.inputs, order, 1)
            /\ (f.marked /\ f.err.kind = "template") =>
                  ~ExpandTemplate(cmds[n + 1], StaticVars).ok
            /\ (cfg = 3 /\ f.task = "T3" /\ n >= 1 /\ f.inputs[<<"t">>] = <<"{", "{", ".", "V", "}", "}">>) =>
                  f.rendered[1] = <<"{", "{", ".", "V", "}", "}", "x">>
            /\ (cfg = 3 /\ f.task = "T3" /\ n >= 2 /\ f.inputs[<<"u">>] = <<"{", "{">>) =>
                  f.rendered[2] = <<"{", "{">>

\* T3 ran both commands with the values {{.V}} and {{ taken from the defaults
C12_Witness ==
    \E p \in Frames :
        /\ cfg = 3 /\ frames[p].task = "T3" /\ Completed(p)
        /\ frames[p].rendered = <<<<"{", "{", ".", "V", "}", "}", "x">>, <<"{", "{">>>>

\* the field names that match the text after a "$"
Matching(s, inputs) == {n \in DOMAIN inputs : HasPrefix(s, n)}

\* one simultaneous replacement of every $NAME token (the longest field
\* name that matches) by its value; the values are not scanned again
RECURSIVE Simultaneous(_, _)
Simultaneous(s, inputs) ==
    IF s = <<>> THEN <<>>
    ELSE IF Head(s) = "$" /\ Matching(Tail(s), inputs) # {}
    THEN LET n == CHOOSE m \in Matching(Tail(s), inputs) :
                      \A o \in Matching(Tail(s), inputs) : Len(o) <= Len(m)
         IN  inputs[n] \o Simultaneous(SubSeq(s, Len(n) + 2, Len(s)), inputs)
    ELSE <<Head(s)>> \o Simultaneous(Tail(s), inputs)

\* C13: the interactive substitution of every command started equals one
\* simultaneous literal replacement of each $NAME token by its value,
\* whatever the order in which the input map is iterated.
C13_SimultaneousReplace ==
    \A p \in Frames :
        LET f == frames[p] IN
        \A k \in 1..Len(f.rendered) :
            f.rendered[k] = Simultaneous(expandVars(Tasks[f.task].Cmds[k]).out, f.inputs)

\* index of the first "{{" of s at or after k, 0 when there is none
FirstOpen(s) ==
    IF \E i \in 1..(Len(s) - 1) : s[i] = "{" /\ s[i + 1] = "{"
    THEN CHOOSE i \in 1..(Len(s) - 1) :
            /\ s[i] = "{" /\ s[i + 1] = "{"
            /\ \A j \in 1..(i - 1) : ~(s[j] = "{" /\ s[j + 1] = "{")
    ELSE 0

Closings(s, i) == {j \in (i + 2)..(Len(s) - 1) : s[j] = "}" /\ s[j + 1] = "}"}

\* what static expansion is to produce: each {{.NAME}} of the template, left
\* to right, replaced by the value of NAME (nothing for an undeclared NAME),
\* the text between them copied, the values not expanded again; an
\* unclosed action is an error
RECURSIVE StaticReference(_)
StaticReference(s) ==
    LET i == FirstOpen(s) IN
    IF i = 0 THEN [ok |-> TRUE, out |-> s]
    ELSE IF Closings(s, i) = {} THEN [ok |-> FALSE, out |-> <<>>]
    ELSE LET j == CHOOSE c \in Closings(s, i) : \A d \in Closings(s, i) : c <= d
             name == SubSeq(s, i + 3, j - 1)
             r == StaticReference(SubSeq(s, j + 2, Len(s)))
         IN  IF s[i + 2] # "." \/ ~r.ok THEN [ok |-> FALSE, out |-> <<>>]
             ELSE [ok |-> TRUE,
                   out |-> SubSeq(s, 1, i - 1)
                           \o (IF name \in DOMAIN StaticVars THEN StaticVars[name] ELSE <<>>)
                           \o r.out]

RecordFor(pid) ==
    {[PID |-> pid, TaskName |-> Chars(target),
      Command |-> expandVars(Tasks[target].Cmds[Len(Tasks[target].Cmds)]).out,
      LogFile |-> LogPath(target, t)] : t \in Timestamps}

\* the store holds one record for the process spawned, under its pid
Recorded ==
    /\ host.pid \in DOMAIN store
    /\ store[host.pid] \in RecordFor(host.pid)
    /\ {q \in DOMAIN store : store[q].PID = host.pid} = {host.pid}

StartSucceeded == Top \in DOMAIN frames /\ TopReturned /\ ~IsErr(frames[Top].err)

ListStepChecks ==
    (op.pc = "list" /\ op.files # <<>> /\ nops' = nops /\ op'.files = Tail(op.files)
        /\ Head(op.files) \in DOMAIN store) =>
        LET pid == Head(op.files) IN
        IF procs[pid].alive
        THEN op'.ret = Append(op.ret, store[pid]) /\ store' = store /\ op'.del = op.del
        ELSE op'.ret = op.ret /\ pid \notin DOMAIN store' /\ op'.del = op.del \cup {pid}
                /\ \A q \in DOMAIN store \ {pid} : q \in DOMAIN store' /\ store'[q] = store[q]

\* C17: List returns exactly the persisted records whose process is alive
\* when checked and deletes the records whose process is dead; it never
\* deletes the record of a live process; a second List with no change of the
\* process table since the first began returns the same records and deletes
\* nothing.
C17_ListSelfHealing ==
    /\ [][ListStepChecks]_vars
    /\ [](\A pid \in op.del : ~isProcessRunning(pid))
    /\ [](\A i \in 1..Len(op.ret) : op.ret[i].PID \notin op.del)
    /\ []((op.kind = "list" /\ op.pc = "done" /\ prev.kind = "list"
             /\ ~prev.moved /\ ~op.moved) =>
                op.ret = prev.ret /\ op.del = {})

\* two lists in a row without a change of the process table: the first
\* removed the record of the dead process 3 and returned that of process 2
C17_Witness ==
    /\ op.kind = "list" /\ op.pc = "done" /\ prev.kind = "list"
    /\ ~prev.moved /\ ~op.moved
    /\ prev.del = {3} /\ Len(op.ret) = 1 /\ op.ret[1].PID = 2

\* C18: once a detached process has ended its record goes: the reaper of
\* its invocation, when that still runs, can act and leaves no record; the
\* listing of any List or Stop begun after the end leaves no record of it and
\* does not return it; no record comes back into the store.
C18_RecordRemovedAfterExit ==
    /\ [](host.reaper = "done" => ~isProcessRunning(host.pid) /\ host.pid \notin DOMAIN store)
    /\ []((host.running /\ host.reaper = "waiting" /\ ~isProcessRunning(host.pid)) => ENABLED Reaper)
    /\ []((op.kind # "none" /\ op.pc # "list") => \A pid \in op.dead : pid \notin DOMAIN store)
    /\ [](\A i \in 1..Len(op.ret) : op.ret[i].PID \notin op.dead)
    /\ [][DOMAIN store' \subseteq DOMAIN store]_vars

\* process 2 ended after its invocation had ended, and the next list removed
\* its record
C18_Witness ==
    /\ ~host.running /\ host.reaper = "waiting"
    /\ op.kind = "list" /\ op.pc = "done" /\ host.pid \in op.dead /\ host.pid \in op.del

\* C19: when Stop returns success for a live record, the record of the
\* target is gone from the store and neither the target nor a process
\* started by it is running.
C19_StopTerminatesTree ==
    (op.kind = "stop" /\ op.pc = "done" /\ op.err = "nil" /\ op.found) =>
        /\ op.target \notin DOMAIN store
        /\ \A q \in Tree({op.target}) : ~isProcessRunning(q)

\* C20: when no live record matches the identifier, Stop returns an error,
\* ends no process and removes no record of a live process.
C20_StopUnknownFails ==
    (op.kind = "stop" /\ op.pc = "done" /\ ~op.found) =>
        /\ op.err # "nil"
        /\ op.killed = {}
        /\ op.removed = {}


\* C21: when Stop has resolved a live record and the target ends by itself
\* before the termination step of Stop acts on it, Stop returns without
\* error and the record of the target is not in the store afterwards.
C21_StopAfterExitIsNoOp ==
    (op.kind = "stop" /\ op.pc = "done" /\ op.found
        /\ ~isProcessRunning(op.target) /\ op.target \notin op.killed) =>
            /\ op.err = "nil"
            /\ op.target \notin DOMAIN store

\* C22: for every identifier and every list of live records, Logs and Stop
\* resolve the identifier alike: both find a target or neither does, and the
\* target found is the same record.
C22_LogsResolvesAsStop ==
    (op.kind = "logs" /\ op.pc = "done") =>
        \A identifier \in Identifiers :
            LET s == ResolveStop(identifier, op.ret)
                l == ResolveLogs(identifier, op.ret)
            IN  /\ (s.targetPID # 0) <=> (l.logFile # <<>>)
                /\ l.logFile # <<>> =>
                      \E i \in 1..Len(op.ret) :
                          /\ op.ret[i].PID = s.targetPID
                          /\ op.ret[i].LogFile = l.logFile
                          /\ op.ret[i].TaskName = l.taskName

\* the record matches the identifier: by its pid or by its task name
Names(identifier, proc) ==
    IF Atoi(identifier).ok THEN proc.PID = Atoi(identifier).n
    ELSE proc.TaskName = identifier

\* C23: after a detached process has ended, with its log file still there,
\* Logs called with its task name or its pid does not report that no
\* detached task was found.
C23_LogsOfFinishedTask ==
    (op.kind = "logs" /\ op.pc = "done"
        /\ \E i \in 1..Len(op.lost) :
              Names(op.id, op.lost[i]) /\ op.lost[i].LogFile \in DOMAIN logs) =>
                  op.err # "no detached task found"

\* C24: once Logs has resolved the identifier to the log file of a live
\* task, the retrieval ends without error and shows nothing when the file
\* holds no line, and otherwise the last min(TailN, number of lines) lines
\* of the file, in their order.
C24_LastLines ==
    [][(op.pc = "tail" /\ op'.pc = "done") =>
          LET l == logs[op.logFile]
              k == IF Len(l) < TailN THEN Len(l) ELSE TailN
          IN  /\ op'.err = "nil"
              /\ Len(op'.shown) = k
              /\ \A i \in 1..k : op'.shown[i] = l[Len(l) - k + i]]_vars

C24_Witness ==
    /\ op.kind = "logs" /\ op.pc = "done" /\ op.err = "nil"
    /\ isProcessRunning(ResolveStop(op.id, op.ret).targetPID)
    /\ Len(logs[op.logFile]) = TailN + 1
    /\ Len(op.shown) = TailN
    /\ op.shown[1] = 2 /\ op.shown[TailN] = TailN + 1

\* C25: when the invocation that started a detached process ends before the
\* process does, the process is not ended and its record is not removed; the
\* record of a running process leaves the store only by a stop of that
\* process; and a List that completes while the process runs returns it.
C25_ChildOutlivesInvocation ==
    /\ [][(host.running /\ ~host'.running) => (procs' = procs /\ store' = store)]_vars
    /\ [][\A q \in DOMAIN store :
            (isProcessRunning(q) /\ q \notin DOMAIN store') =>
                (op.kind = "stop" /\ op.target = q)]_vars
    /\ []((~host.running /\ host.pid # 0 /\ isProcessRunning(host.pid)
            /\ op.kind = "list" /\ op.pc = "done") =>
                \E i \in 1..Len(op.ret) :
                    op.ret[i].PID = host.pid /\ op.ret[i] = store[host.pid])

C25_Witness ==
    /\ ~host.running /\ host.pid = 2 /\ host.reaper = "waiting"
    /\ isProcessRunning(2)
    /\ op.kind = "list" /\ op.pc = "done" /\ ~op.moved
    /\ \E i \in 1..Len(op.ret) : op.ret[i].PID = 2
    /\ 2 \in DOMAIN store

\* the detached processes that run, their children apart
Detached == {q \in Alive : procs[q].parent = 0 /\ procs[q].out # <<>>}

\* C26: every detached process has its own log file: no two running
\* detached processes write to the same path, and no step takes a line from
\* the log file of a detached process that still runs.
C26_OwnLogFile ==
    /\ [](\A q1, q2 \in Detached : q1 # q2 => procs[q1].out # procs[q2].out)
    /\ [][\A q \in Detached :
            procs[q].out \in DOMAIN logs =>
                /\ procs[q].out \in DOMAIN logs'
                /\ Len(logs'[procs[q].out]) >= Len(logs[procs[q].out])]_vars

\* the calls that passed the re-check for task T: they hold the lock after
\* it, or went on to ask a field or to mark T
PassedRecheck(T) ==
    {p \in Frames : /\ frames[p].task = T
                    /\ \/ frames[p].pc \in {"Prompt", "Mark"}
                       \/ frames[p].marked
                       \/ DOMAIN frames[p].typed # {}}

\* C27: a call that passes the re-check for T marks T before it releases
\* the lock and before the first command of T starts: whenever a command of
\* T runs or has run, T is in Ran; the lock is not released after the
\* re-check with T unmarked; and at most one call ever passes the re-check
\* for T.
C27_RecheckAndMarkAtomic ==
    /\ [](\A p \in Frames : frames[p].rendered # <<>> => frames[p].task \in Ran)
    /\ [][\A p \in Frames :
            (frames[p].pc \in {"Check2", "Prompt", "Mark"} /\ p \in writers /\ p \notin writers') =>
                frames[p].task \in Ran']_vars
    /\ [](\A T \in DOMAIN Tasks : Cardinality(PassedRecheck(T)) <= 1)

\* the tasks that lie on a dependency cycle, and those that reach one
OnCycle == {T \in DOMAIN Tasks : \E D \in DepsOf(T) : T \in Closure(D)}

ReachesCycle(T) == Closure(T) \cap OnCycle # {}

\* C28: cycles are not detected: a call of a task that lies on a dependency
\* cycle, or reaches one, never returns and carries no error; the task is
\* never marked and none of its commands is started; and the nested call of
\* the next task of the cycle is always made.
C28_CycleNeverReturns ==
    /\ [](\A p \in Frames :
            ReachesCycle(frames[p].task) =>
                /\ ~Returned(frames[p])
                /\ frames[p].err = NilErr
                /\ ~frames[p].marked
                /\ frames[p].rendered = <<>>
                /\ frames[p].task \notin Ran)
    /\ [](\A p \in Frames :
            (frames[p].task \in OnCycle /\ frames[p].pc = "Lookup" /\ Len(p) < MaxDepth) =>
                ENABLED Lookup(p))
    /\ [][\A p \in Frames :
            (frames[p].task \in OnCycle /\ frames[p].pc = "Lookup" /\ frames'[p].pc # "Lookup") =>
                \E k \in 1..Len(Tasks[frames[p].task].Deps) :
                    /\ Child(p, k) \in DOMAIN frames' \ DOMAIN frames
                    /\ frames'[Child(p, k)].task \in OnCycle]_vars

C28_Witness ==
    /\ target = "M"
    /\ \E p \in Frames : Len(p) = MaxDepth /\ frames[p].task \in OnCycle /\ frames[p].pc = "Lookup"
    /\ \E p \in Frames : frames[p].task = "C" /\ Completed(p)
    /\ frames[Top].pc = "WgWait" /\ frames[Top].wg = 1

\* C29: a detached start that returns an error has spawned no process and
\* saved no record: the process table and the store are as it found them;
\* and a setup command that exits non-zero is the last command started: no
\* later setup command and not the final command is run.
C29_FailedStartSpawnsNothing ==
    LET f == frames[Top] IN
    /\ (TopReturned /\ IsErr(f.err)) =>
          /\ host.pid = 0
          /\ host.saved = "none"
          /\ \E w \in StartWorlds : store = w.store /\ procs = w.procs
    /\ \A k \in 1..Len(f.exits) :
          f.exits[k] # 0 =>
              /\ k = Len(f.exits)
              /\ Len(f.rendered) = k
              /\ k < Len(Tasks[f.task].Cmds)
              /\ TopReturned /\ f.err.kind = "setup command failed"
              /\ host.pid = 0

\* the second setup command of K has failed after the first succeeded
C29_Witness ==
    /\ target = "K" /\ TopReturned /\ IsErr(frames[Top].err)
    /\ frames[Top].exits = <<0, 1>>
    /\ frames[Top].rendered = <<<<"h">>, <<"j">>>>
    /\ host.pid = 0 /\ DOMAIN store \subseteq {1}

\* the pids of the records listed that carry the task name, in the order
\* of the listing
Namesakes(identifier, processes) ==
    {processes[i].PID : i \in {j \in 1..Len(processes) : processes[j].TaskName = identifier}}

\* C30: when the listing of Stop(taskName) holds several live records of
\* that task name, Stop ends exactly one of their processes, that of the
\* first of them in the order of the listing, and removes that record only:
\* the others are not ended by it and their records stay in the store.
C30_StopFirstOfSeveral ==
    (op.kind = "stop" /\ op.pc = "done" /\ ~Atoi(op.id).ok
        /\ Cardinality(Namesakes(op.id, op.ret)) >= 2) =>
            LET same == Namesakes(op.id, op.ret)
                first == ResolveStop(op.id, op.ret).targetPID
            IN  /\ \A q \in same : first <= q
                /\ op.killed \cap same = {first}
                /\ ~isProcessRunning(first)
                /\ op.removed = {first}
                /\ DOMAIN store \cap same = same \ {first}

\* the calls of the sequential runner that have not returned
Pending == {p \in Frames : ~Returned(frames[p])}

\* C31: in the sequential runner the dependencies of a task are called one
\* at a time in the order declared, each running its own dependencies
\* first; a command of the task starts only after the call of every
\* dependency has returned without error; the first dependency that fails
\* ends the task, no later dependency is called and no command started; a
\* task is in Ran only after all its commands have succeeded, and no
\* command of a task in Ran is started again.
C31_SequentialRunner ==
    /\ [](\A p, q \in Pending : Len(p) <= Len(q) => p = SubSeq(q, 1, Len(p)))
    /\ [](\A p \in Frames \ {Top} :
            LET up == Parent(p)
                last == p[Len(p)]
            IN  /\ frames[p].task = Tasks[frames[up].task].Deps[last]
                /\ frames[up].rendered = <<>> \/ Returned(frames[p])
                /\ \A j \in 1..(last - 1) :
                      /\ Child(up, j) \in Frames
                      /\ frames[Child(up, j)].pc = "Exited"
                      /\ ~IsErr(frames[Child(up, j)].err)
                      /\ frames[Child(up, j)].task \in Ran)
    /\ [](\A p \in Frames :
            frames[p].rendered # <<>> =>
                \A k \in 1..Len(Tasks[frames[p].task].Deps) :
                    /\ Child(p, k) \in Frames
                    /\ frames[Child(p, k)].pc = "Exited"
                    /\ ~IsErr(frames[Child(p, k)].err)
                    /\ Tasks[frames[p].task].Deps[k] \in Ran)
    /\ [](\A p \in Frames \ {Top} :
            (frames[p].pc = "Exited" /\ IsErr(frames[p].err)) =>
                /\ frames[Parent(p)].pc \in {"Ret", "Exited"}
                /\ frames[Parent(p)].err = frames[p].err
                /\ frames[Parent(p)].rendered = <<>>
                /\ Child(Parent(p), p[Len(p)] + 1) \notin Frames)
    /\ [](\A T \in Ran :
            \E p \in Frames :
                /\ frames[p].task = T /\ frames[p].marked
                /\ Len(frames[p].exits) = Len(Tasks[T].Cmds)
                /\ \A i \in 1..Len(frames[p].exits) : frames[p].exits[i] = 0)
    /\ [][\A p \in DOMAIN frames' :
            (frames'[p].task \in Ran /\ p \in DOMAIN frames) =>
                frames'[p].rendered = frames[p].rendered]_vars
    /\ [](\A T \in DOMAIN Tasks : Cardinality(StartedBy(T)) <= 1)

\* D has run after its dependencies, which share C: C ran once, the second
\* call for C returned at once
C31_Witness ==
    /\ cfg = 1 /\ target = "D" /\ TopReturned /\ ~IsErr(frames[Top].err)
    /\ "D" \in Ran /\ "C" \in Ran
    /\ Cardinality(StartedBy("C")) = 1
    /\ Cardinality({p \in Frames : frames[p].task = "C"}) = Width

\* the calls that are collecting interactive input
Prompting == {p \in Frames : frames[p].pc = "Prompt"}

\* C32: at most one call collects interactive input at a time; while it
\* waits for a line it holds the mutex for writing, alone; and until its
\* collection ends no other call reads or writes Ran: a call that waits for
\* the mutex stays where it is, and Ran does not change.
C32_PromptExclusive ==
    /\ [](Cardinality(Prompting) <= 1)
    /\ [](\A p \in Prompting : writers = {p} /\ readers = {})
    /\ [](\A p \in Prompting : \A q \in Frames \ {p} :
            frames[q].pc \notin {"Check1", "Check2", "Mark"})
    /\ [][\A p \in Prompting :
            /\ \A q \in Frames \ {p} :
                  frames[q].pc \in {"RLock", "Lock"} => frames'[q] = frames[q]
            /\ Ran' = Ran]_vars

\* S is asked of the operator by one branch of U while the other branch
\* waits for the mutex
C32_Witness ==
    \E p, q \in Frames :
        /\ p # q
        /\ frames[p].task = "S" /\ frames[p].pc = "Prompt"
        /\ frames[q].task = "S" /\ frames[q].pc = "Lock"

\* the calls that have asked the operator for a field of task T
AskedBy(T) == {p \in Frames : frames[p].task = T /\ DOMAIN frames[p].typed # {}}

\* C33: within one invocation the fields of a task are asked of the
\* operator by at most one call, also when several branches reach the task
\* and the collection fails.
C33_PromptsAtMostOnce ==
    \A T \in DOMAIN Tasks : Cardinality(AskedBy(T)) <= 1

\* a call has collected the fields of task T and failed
PromptFailed(T) ==
    \E p \in Frames :
        /\ frames[p].task = T /\ DOMAIN frames[p].typed # {}
        /\ ~frames[p].marked /\ IsErr(frames[p].err)

\* C34: Ran is empty at the start and only grows; it holds names of tasks
\* of the configuration only; no name leaves it, also when a command of the
\* task fails later; and a task whose prompt collection failed is not in it.
C34_RanOnlyGrows ==
    /\ Ran = {}
    /\ [][Ran \subseteq Ran']_vars
    /\ [](Ran \subseteq DOMAIN Tasks)
    /\ [](\A T \in Ran : ~PromptFailed(T))

\* C35: over the configurations without cycles, when every command started
\* ends and every prompt gets a line, RunTask returns; a call that has
\* returned holds the mutex neither for reading nor for writing, whatever
\* the path it returned by; and as long as RunTask has not returned some
\* call can take a step.
C35_RunTaskTerminates ==
    /\ <>TopReturned
    /\ [](\A p \in Frames : Returned(frames[p]) => p \notin readers \cup writers)
    /\ [](TopReturned => readers = {} /\ writers = {})
    /\ [](~TopReturned => ENABLED Next)

\* RunTask(U) has returned: one call for S failed at its prompt and gave the
\* mutex back, the other call for S took it afterwards and ran S
C35_Witness ==
    /\ cfg = 4 /\ target = "U" /\ TopReturned
    /\ readers = {} /\ writers = {}
    /\ PromptFailed("S")
    /\ \E p \in BodyOf("S") : Completed(p)

\* the first command of task T whose template is malformed (0: none)
FirstMalformed(T) ==
    LET bad == {k \in 1..Len(Tasks[T].Cmds) : ~expandVars(Tasks[T].Cmds[k]).ok}
    IN  IF bad = {} THEN 0 ELSE CHOOSE k \in bad : \A j \in bad : k <= j

\* C36: templates are expanded one command at a time: no command is
\* started at or after the first malformed one of its task; the call that
\* reaches the malformed command i has run the commands 1..i-1 to the end,
\* returns the template error, and its task stays in Ran.
C36_LazyTemplates ==
    \A p \in Frames :
        LET f == frames[p]
            i == IF f.task \in DOMAIN Tasks THEN FirstMalformed(f.task) ELSE 0
        IN  i # 0 =>
              /\ Len(f.rendered) < i
              /\ (f.marked /\ f.err.kind = "template") =>
                    /\ Returned(f)
                    /\ f.err.cmd = Tasks[f.task].Cmds[i]
                    /\ Len(f.rendered) = i - 1 /\ Len(f.exits) = i - 1
                    /\ \A k \in 1..(i - 1) : f.exits[k] = 0
                    /\ f.task \in Ran
              /\ (f.marked /\ Returned(f) /\ Len(f.exits) = i - 1
                    /\ \A k \in 1..(i - 1) : f.exits[k] = 0) => f.err.kind = "template"

\* X: the first command has run, the second is malformed, the third is not
\* reached
C36_Witness ==
    /\ cfg = 5 /\ target = "X" /\ TopReturned
    /\ frames[Top].err.kind = "template"
    /\ Len(frames[Top].rendered) = 1 /\ frames[Top].exits = <<0>>
    /\ "X" \in Ran

\* C37: the detached start of T does not touch Ran[T] and asks the operator
\* nothing for T: its call never takes the mutex, is never at a check, a
\* prompt or the mark, holds no input, and T is not in Ran, which holds
\* dependencies of T only; the commands of T are rendered by the static
\* expansion alone, $field tokens staying as they are, and the process
\* spawned runs the last of them so rendered.
C37_DetachedStartLeavesRan ==
    LET f == frames[Top] IN
    /\ f.pc \in {"DLookup", "DWaitInline", "DWgWait", "DPrep", "DSetup", "DSetupRun",
                 "DSpawn", "DSave", "DGo", "Ret"}
    /\ Top \notin readers \cup writers
    /\ ~f.marked /\ f.typed = <<>> /\ f.inputs = <<>> /\ f.todo = {}
    /\ target \notin Ran
    /\ Ran \subseteq Closure(target) \ {target}
    /\ \A p \in Frames : frames[p].marked => p # Top /\ frames[p].task # target
    /\ f.task \in DOMAIN Tasks =>
          \A k \in 1..Len(f.rendered) :
              /\ expandVars(Tasks[f.task].Cmds[k]).ok
              /\ f.rendered[k] = ExpandTemplate(Tasks[f.task].Cmds[k], StaticVars).out
    /\ host.pid # 0 =>
          procs[host.pid].cmd = ExpandTemplate(Tasks[target].Cmds[Len(Tasks[target].Cmds)], StaticVars).out

\* S, which declares the required field q, was started: its process runs
\* "s$qx" with the token in place, and only B, I and C are in Ran
C37_Witness ==
    /\ target = "S" /\ TopReturned /\ ~IsErr(frames[Top].err)
    /\ host.pid # 0
    /\ procs[host.pid].cmd = <<"s", "$", "q", "x">>
    /\ frames[Top].rendered = <<<<"u">>, <<"s", "$", "q", "x">>>>
    /\ Ran = {"B", "I", "C"}
    /\ DOMAIN Tasks["S"].Interactive = {<<"q">>}

\* the goroutines of the fan-out of the call p
FanOut(p) ==
    IF frames[p].task \in DOMAIN Tasks /\ Len(Tasks[frames[p].task].Deps) > 1
    THEN {c \in Frames : Len(c) = Len(p) + 1 /\ Parent(c) = p}
    ELSE {}

\* C38: each branch of a fan-out of n dependencies sends at most one error
\* to errChan, which holds n of them, so that no send waits: a branch that
\* has returned can always send its error or signal its completion, the
\* join can return once every branch has signalled, and the channel is
\* closed only after the last send.
C38_SendNeverBlocks ==
    /\ [](\A p \in Frames :
            /\ Len(frames[p].errChan) =
                  Cardinality({c \in FanOut(p) :
                                 IsErr(frames[c].err) /\ frames[c].pc \in {"Deferred", "Exited"}})
            /\ Len(frames[p].errChan) <= Cardinality(FanOut(p)))
    /\ [](\A c \in Frames :
            (frames[c].kind = "go" /\ frames[c].pc = "Ret" /\ IsErr(frames[c].err)) =>
                ENABLED GoSend(c))
    /\ [](\A c \in Frames :
            (frames[c].kind = "go" /\ frames[c].pc \in {"Ret", "Deferred"}) =>
                (ENABLED GoSend(c) \/ ENABLED WgDone(c)))
    /\ [](\A p \in Frames :
            (frames[p].pc = "WgWait" /\ \A c \in FanOut(p) : frames[c].pc = "Exited") =>
                ENABLED WgWait(p))
    /\ [](\A p \in Frames : frames[p].closed => \A c \in FanOut(p) : frames[c].pc = "Exited")
    /\ [][\A p \in Frames : frames[p].closed => frames'[p].errChan = frames[p].errChan]_vars

\* R: deps = [C, M]: both branches failed and both errors are in the
\* channel, which holds two
C38_Witness ==
    /\ cfg = 2 /\ target = "R" /\ frames[Top].closed
    /\ Len(frames[Top].errChan) = 2
    /\ Capacity(Tasks["R"].Deps) = 2
    /\ \A c \in FanOut(Top) : frames[c].pc = "Exited" /\ IsErr(frames[c].err)

====
